---- MODULE Spec2Model ----
(***************************************************************************)
(* A model of kgrid: the Kraken client of src/src/kraken_api.py (nonce,    *)
(* signed request, envelope unwrapping, market-data facades) and the grid  *)
(* ladder of src/src/grid.py (GridStrategy, Rung).                         *)
(*                                                                         *)
(* Prices and volumes are decimal.Decimal values.  They are modelled as    *)
(* records [neg, coef, exp] whose coefficient is a sequence of decimal     *)
(* digits, least significant first, so that the arithmetic of the default  *)
(* decimal context (28 significant digits, ROUND_HALF_EVEN) is computed    *)
(* digit for digit and not approximated by machine integers.               *)
(***************************************************************************)
EXTENDS Integers, Sequences, FiniteSets, TLC

(***************************************************************************)
(* Natural numbers of any size: digit sequences, least significant digit   *)
(* first, without leading zeros; zero is the empty sequence.               *)
(***************************************************************************)

\* Recursions over the digits split the range in halves, so that their depth
\* is logarithmic in the number of digits.

Digit(a, i) ==
    IF i <= Len(a) THEN a[i] ELSE 0

Strip(a) ==
    LET nz == {i \in 1..Len(a) : a[i] # 0}
    IN  IF nz = {} THEN <<>>
        ELSE SubSeq(a, 1, CHOOSE m \in nz : \A k \in nz : k <= m)

RECURSIVE NatDigits(_)
NatDigits(n) ==
    IF n = 0 THEN <<>> ELSE <<n % 10>> \o NatDigits(n \div 10)

Zeros(k) ==
    [i \in 1..k |-> 0]

\* a * 10^k
ShiftLeft(a, k) ==
    IF a = <<>> THEN <<>> ELSE Zeros(k) \o a

\* a \div 10^k
ShiftRight(a, k) ==
    IF k >= Len(a) THEN <<>> ELSE SubSeq(a, k + 1, Len(a))

\* a % 10^k, as digits (not stripped)
LowDigits(a, k) ==
    IF k >= Len(a) THEN a ELSE SubSeq(a, 1, k)

IsZeroDigits(a) ==
    \A i \in 1..Len(a) : a[i] = 0

\* Digits lo..hi of a + b + c, with the carry out of digit hi.
RECURSIVE AddRange(_, _, _, _, _)
AddRange(a, b, lo, hi, c) ==
    IF lo > hi THEN [d |-> <<>>, c |-> c]
    ELSE IF lo = hi
    THEN LET s == Digit(a, lo) + Digit(b, lo) + c
         IN  [d |-> <<s % 10>>, c |-> s \div 10]
    ELSE LET mid == (lo + hi) \div 2
             low == AddRange(a, b, lo, mid, c)
             up  == AddRange(a, b, mid + 1, hi, low.c)
         IN  [d |-> low.d \o up.d, c |-> up.c]

AddCarry(a, b, c) ==
    LET n == IF Len(a) > Len(b) THEN Len(a) ELSE Len(b)
        r == AddRange(a, b, 1, n, c)
    IN  IF r.c = 0 THEN r.d ELSE Append(r.d, r.c)

NatAdd(a, b) ==
    AddCarry(a, b, 0)

\* Digits lo..hi of a * d + c for a digit d, with the carry out of digit hi.
RECURSIVE MulDigitRange(_, _, _, _, _)
MulDigitRange(a, d, lo, hi, c) ==
    IF lo > hi THEN [d |-> <<>>, c |-> c]
    ELSE IF lo = hi
    THEN LET s == a[lo] * d + c
         IN  [d |-> <<s % 10>>, c |-> s \div 10]
    ELSE LET mid == (lo + hi) \div 2
             low == MulDigitRange(a, d, lo, mid, c)
             up  == MulDigitRange(a, d, mid + 1, hi, low.c)
         IN  [d |-> low.d \o up.d, c |-> up.c]

MulDigit(a, d) ==
    LET r == MulDigitRange(a, d, 1, Len(a), 0)
    IN  IF d = 0 THEN <<>>
        ELSE IF r.c = 0 THEN r.d ELSE Append(r.d, r.c)

\* a * (digits lo..hi of b, read as a number)
RECURSIVE MulRange(_, _, _, _)
MulRange(a, b, lo, hi) ==
    IF lo > hi THEN <<>>
    ELSE IF lo = hi THEN MulDigit(a, b[lo])
    ELSE LET mid == (lo + hi) \div 2
         IN  NatAdd(MulRange(a, b, lo, mid),
                    ShiftLeft(MulRange(a, b, mid + 1, hi), mid + 1 - lo))

NatMul(a, b) ==
    IF a = <<>> \/ b = <<>> THEN <<>> ELSE MulRange(a, b, 1, Len(b))

\* -1, 0, 1 as a < b, a = b, a > b (both without leading zeros)
NatCmp(a, b) ==
    LET diff == {i \in 1..Len(a) : a[i] # Digit(b, i)}
        top  == CHOOSE m \in diff : \A k \in diff : k <= m
    IN  IF Len(a) < Len(b) THEN -1
        ELSE IF Len(a) > Len(b) THEN 1
        ELSE IF diff = {} THEN 0
        ELSE IF a[top] < b[top] THEN -1 ELSE 1

Reverse(a) ==
    [i \in 1..Len(a) |-> a[Len(a) + 1 - i]] \o <<>>

\* Long division of digits hi down to lo of a by a machine integer n > 0,
\* entered with the remainder r: [q |-> the quotient digits, most significant
\* first, r |-> remainder].
RECURSIVE DivRange(_, _, _, _, _)
DivRange(a, n, lo, hi, r) ==
    IF lo > hi THEN [q |-> <<>>, r |-> r]
    ELSE IF lo = hi
    THEN LET cur == r * 10 + a[lo]
         IN  [q |-> <<cur \div n>>, r |-> cur % n]
    ELSE LET mid == (lo + hi) \div 2
             up  == DivRange(a, n, mid + 1, hi, r)
             low == DivRange(a, n, lo, mid, up.r)
         IN  [q |-> up.q \o low.q, r |-> low.r]

NatDivMod(a, n) ==
    LET res == DivRange(a, n, 1, Len(a), 0)
    IN  [q |-> Strip(Reverse(res.q)), r |-> res.r]

(***************************************************************************)
(* decimal.Decimal under the default context: Prec significant digits,     *)
(* rounding ROUND_HALF_EVEN.  A value is  (-1)^neg * coef * 10^exp.        *)
(***************************************************************************)

\* decimal.getcontext().prec, the default the program never changes
Prec == 28

\* Decimal(str) of the literal  c * 10^e  for a machine integer c
D(c, e) ==
    [neg |-> c < 0, coef |-> NatDigits(IF c < 0 THEN -c ELSE c), exp |-> e]

DecimalOfInt(n) ==
    D(n, 0)

DIsZero(x) ==
    x.coef = <<>>

\* Round to p significant digits, half to even (Decimal._fix).
Fix(x, p) ==
    IF Len(x.coef) <= p THEN x
    ELSE LET k       == Len(x.coef) - p
             kept    == ShiftRight(x.coef, k)
             dropped == LowDigits(x.coef, k)
             half    == dropped[k] = 5 /\ IsZeroDigits(SubSeq(dropped, 1, k - 1))
             up      == \/ dropped[k] > 5
                        \/ dropped[k] = 5 /\ ~half
                        \/ half /\ kept[1] % 2 = 1
             coef    == IF up THEN AddCarry(kept, <<>>, 1) ELSE kept
         IN  IF Len(coef) > p
             THEN [neg |-> x.neg, coef |-> ShiftRight(coef, 1), exp |-> x.exp + k + 1]
             ELSE [neg |-> x.neg, coef |-> coef, exp |-> x.exp + k]

\* The coefficient of x written at the exponent e <= x.exp
CoefAt(x, e) ==
    ShiftLeft(x.coef, x.exp - e)

MinExp(x, y) ==
    IF x.exp < y.exp THEN x.exp ELSE y.exp

\* -1, 0, 1 as x < y, x = y, x > y, by numerical value (Decimal.__lt__, __eq__)
DCmp(x, y) ==
    LET e == MinExp(x, y)
        m == NatCmp(CoefAt(x, e), CoefAt(y, e))
    IN  IF DIsZero(x) /\ DIsZero(y) THEN 0
        ELSE IF DIsZero(x) THEN (IF y.neg THEN 1 ELSE -1)
        ELSE IF DIsZero(y) THEN (IF x.neg THEN -1 ELSE 1)
        ELSE IF x.neg /\ ~y.neg THEN -1
        ELSE IF ~x.neg /\ y.neg THEN 1
        ELSE IF x.neg THEN -m ELSE m

DEq(x, y) == DCmp(x, y) = 0
DLt(x, y) == DCmp(x, y) < 0
DLe(x, y) == DCmp(x, y) <= 0

\* x + y for x, y >= 0 (Decimal.__add__): the exact sum at the smaller
\* exponent, then rounded to p digits.
DAdd(x, y, p) ==
    LET e == MinExp(x, y)
    IN  Fix([neg |-> FALSE, coef |-> NatAdd(CoefAt(x, e), CoefAt(y, e)), exp |-> e], p)

\* x * y (Decimal.__mul__): the exact product, then rounded to p digits.
DMul(x, y, p) ==
    Fix([neg  |-> (x.neg # y.neg),
         coef |-> NatMul(x.coef, y.coef),
         exp  |-> x.exp + y.exp], p)

\* x ** n for an int n >= 1 by left-to-right binary exponentiation
\* (libmpdec _mpd_qpow_uint), every product rounded to p digits.
RECURSIVE PowUint(_, _, _)
PowUint(x, n, p) ==
    IF n = 1 THEN x
    ELSE LET h  == PowUint(x, n \div 2, p)
             sq == DMul(h, h, p)
         IN  IF n % 2 = 1 THEN DMul(sq, x, p) ELSE sq

\* x ** n for x > 0 and an int n >= 0 (Decimal.__pow__): n = 0 gives 1;
\* otherwise the products are taken at Prec + digits(n) + 2 digits and the
\* result is rounded to Prec digits.
DPow(x, n) ==
    IF n = 0 THEN DecimalOfInt(1)
    ELSE Fix(PowUint(x, n, Prec + Len(NatDigits(n)) + 2), Prec)

\* Remove at most k trailing zeros of a coefficient: [coef, n] with n the
\* number removed (the search for the ideal exponent of an exact quotient).
DropZeros(a, k) ==
    LET nz == {i \in 1..Len(a) : a[i] # 0}
        tz == IF nz = {} THEN Len(a)
              ELSE (CHOOSE m \in nz : \A j \in nz : m <= j) - 1
        n  == IF k < 0 THEN 0 ELSE IF tz < k THEN tz ELSE k
    IN  [coef |-> ShiftRight(a, n), n |-> n]

\* x / n for x >= 0 and an int n > 0 (Decimal.__truediv__ with the int
\* converted to Decimal): the quotient to Prec + 1 digits, made sticky when
\* it is inexact, brought to the ideal exponent when exact, then rounded.
DDivInt(x, n) ==
    LET nd    == NatDigits(n)
        shift == Len(nd) - Len(x.coef) + Prec + 1
        exp   == x.exp - shift
        dm    == IF shift >= 0
                 THEN NatDivMod(ShiftLeft(x.coef, shift), n)
                 ELSE LET top == NatDivMod(ShiftRight(x.coef, -shift), n)
                      IN  [q |-> top.q,
                           r |-> IF IsZeroDigits(LowDigits(x.coef, -shift))
                                 THEN top.r ELSE 1]
        exact == DropZeros(dm.q, x.exp - exp)
    IN  IF DIsZero(x) THEN [neg |-> FALSE, coef |-> <<>>, exp |-> x.exp]
        ELSE IF dm.r # 0
        THEN Fix([neg  |-> FALSE,
                  coef |-> IF dm.q = <<>> \/ dm.q[1] % 5 = 0
                           THEN AddCarry(dm.q, <<>>, 1) ELSE dm.q,
                  exp  |-> exp], Prec)
        ELSE Fix([neg |-> FALSE, coef |-> exact.coef, exp |-> exp + exact.n], Prec)

\* sum(values): ((0 + v1) + v2) + ... in Decimal arithmetic
RECURSIVE DSum(_)
DSum(vs) ==
    IF Len(vs) = 0 THEN DecimalOfInt(0)
    ELSE DAdd(DSum(SubSeq(vs, 1, Len(vs) - 1)), vs[Len(vs)], Prec)

(***************************************************************************)
(* The state.                                                              *)
(***************************************************************************)
VARIABLES
    now,      \* time.time(), in units of 1/TicksPerMs of a millisecond
    nonces,   \* the nonces the client's _nonce() has returned, latest last
    op,       \* the operation that ran last: its inputs and what it did
    strategy, \* the GridStrategy object, once one has been constructed
    history,  \* the ladders and parameters of earlier generations
    env,      \* os.environ after load_dotenv: API_SECRET and API_KEY
    client    \* the client object, once one has been constructed

vars == <<now, nonces, op, strategy, history, env, client>>

\* Bounds of the model
TicksPerMs == 2
MaxNow == 4
MaxNonceLog == 2
MaxRungCount == 5
MaxEdits == 1

(***************************************************************************)
(* BaseAPI: nonce, signed request, envelope unwrapping                     *)
(* (src/src/kraken_api.py).                                                *)
(***************************************************************************)

\* int(time.time()*1000)
nonce(t) ==
    t \div TicksPerMs

\* JSON values the exchange can answer with.  A mapping (JSON object) is a
\* sequence of entries [k, v] in document order; a value is a record payload
\* ("rec", accepted or not by the pydantic model it is given to) or a nested
\* mapping ("map").
Rec(valid, ask, bid) ==
    [t |-> "rec", valid |-> valid, ask |-> ask, bid |-> bid, items |-> <<>>]

Map(items) ==
    [t |-> "map", valid |-> FALSE, ask |-> "", bid |-> "", items |-> items]

\* prices as TickerInfo holds them (a: List[str], b: List[str])
Quote1 == "30300.10000"
Quote2 == "30301.50000"

PairRecord == Rec(TRUE, "", "")
BadRecord == Rec(FALSE, "", "")
TickerRecord == Rec(TRUE, Quote1, Quote2)

\* result mappings: as the exchange sends them (keyed by pair name), and
\* with the pairs one level down under a key "result"
PairsResult == << [k |-> "ETH/XBT", v |-> PairRecord] >>
WrappedPairsResult == << [k |-> "result", v |-> Map(PairsResult)] >>
WrappedBadResult == << [k |-> "result", v |-> Map(<< [k |-> "ETH/XBT", v |-> BadRecord] >>)] >>
TickerResult == << [k |-> "ETH/XBT", v |-> TickerRecord] >>
WrappedTickerResult == << [k |-> "result", v |-> Map(TickerResult)] >>

Results ==
    {<<>>, PairsResult, WrappedPairsResult, WrappedBadResult, WrappedTickerResult}

ErrorLists ==
    {<<>>, <<"Invalid nonce">>, <<"EGeneral:Invalid arguments", "Invalid nonce">>}

\* What response.json() can give: JSON null, or an object in which "error"
\* and "result" are each present or not.
NullBody ==
    [isNull |-> TRUE, has_error |-> FALSE, error |-> <<>>,
     has_result |-> FALSE, result |-> <<>>]

Envelope(has_error, error, has_result, result) ==
    [isNull |-> FALSE, has_error |-> has_error, error |-> error,
     has_result |-> has_result, result |-> result]

Envelopes ==
    {NullBody}
    \cup {Envelope(TRUE, e, TRUE, r) : e \in ErrorLists, r \in Results}
    \cup {Envelope(TRUE, e, FALSE, <<>>) : e \in ErrorLists}
    \cup {Envelope(FALSE, <<>>, TRUE, r) : r \in Results}
    \cup {Envelope(FALSE, <<>>, FALSE, <<>>)}

\* What session.post(...) followed by response.json() does: an envelope, or
\* one of the failures of the transport.
Transports ==
    {[kind |-> "json", body |-> b] : b \in Envelopes}
    \cup {[kind |-> k, body |-> NullBody] : k \in {"timeout", "connection_error", "non_json"}}

\* How a call ends: it returns a value (None, or a mapping) or raises.
Return(value) ==
    [kind |-> "return", isNone |-> FALSE, value |-> value, exc |-> "", msg |-> <<>>]

ReturnNone ==
    [kind |-> "return", isNone |-> TRUE, value |-> <<>>, exc |-> "", msg |-> <<>>]

Raise(exc, msg) ==
    [kind |-> "raise", isNone |-> FALSE, value |-> <<>>, exc |-> exc, msg |-> msg]

\* sep.join(strings), as the sequence of its pieces
RECURSIVE Join(_, _)
Join(strings, sep) ==
    IF Len(strings) = 0 THEN <<>>
    ELSE IF Len(strings) = 1 THEN <<strings[1]>>
    ELSE <<strings[1], sep>> \o Join(Tail(strings), sep)

\* response.get("error") and response.get("result") are truthy
error_truthy(response) ==
    response.has_error /\ response.error # <<>>

result_truthy(response) ==
    response.has_result /\ response.result # <<>>

\* A variant of _process_response that looks at "result" before "error"
process_response_result_first(response) ==
    IF response.isNull \/ (~response.has_error /\ ~response.has_result)
    THEN Raise("ValueError", <<"No response received from API">>)
    ELSE IF result_truthy(response)
    THEN Return(response.result)
    ELSE IF error_truthy(response)
    THEN Raise("RequestException", <<"API error: ">> \o Join(response.error, ", "))
    ELSE Raise("ValueError", <<"Invalid response format: ", "{response}">>)

\* BaseAPI._process_response
process_response(response) ==
    IF response.isNull \/ (~response.has_error /\ ~response.has_result)
    THEN Raise("ValueError", <<"No response received from API">>)
    ELSE IF error_truthy(response)
    THEN Raise("RequestException", <<"API error: ">> \o Join(response.error, ", "))
    ELSE IF ~result_truthy(response)
    THEN Raise("ValueError", <<"Invalid response format: ", "{response}">>)
    ELSE Return(response.result)

\* BaseAPI._create_signed_request: one post; every requests failure
\* (Timeout and ConnectionError are RequestExceptions, and so is the
\* JSONDecodeError of response.json()) leaves as a ValueError.
create_signed_request(transport) ==
    IF transport.kind = "json"
    THEN Return(transport.body)
    ELSE Raise("ValueError", <<"Failed to parse JSON response from ", "{URL}">>)

\* BaseAPI._get_response: whatever the request or the unwrapping raises is
\* caught and logged, and the call then falls off its end (returns None).
get_response(transport) ==
    LET response == create_signed_request(transport)
        processed == process_response(response.value)
    IN  IF response.kind = "raise" THEN ReturnNone
        ELSE IF processed.kind = "raise" THEN ReturnNone
        ELSE processed

(***************************************************************************)
(* Construction of a client (BaseAPI.__init__).                            *)
(***************************************************************************)

\* os.environ.get(name) of a variable that is not set
Absent == "(absent)"

\* not os.environ.get(name): the variable is not set, or set to ""
Missing(value) ==
    value \in {Absent, ""}

\* The environment conftest.py and the tests of BaseAPI provide
Configured ==
    [API_SECRET |-> "dGVzdF9zZWNyZXQ=", API_KEY |-> "test_key"]

ClientKinds == {"MarketData", "AccountData", "Trading"}

NoClient ==
    [exists |-> FALSE, kind |-> "None"]

Client(kind) ==
    [exists |-> TRUE, kind |-> kind]

\* A variant of BaseAPI.__init__ that looks for the secret only
BaseAPI_init_secret_only(kind, environ) ==
    IF Missing(environ.API_SECRET)
    THEN [outcome |-> Raise("ValueError", <<"Error! ", "API_SECRET", " is missing!">>),
          self |-> NoClient]
    ELSE [outcome |-> Return(<<>>), self |-> Client(kind)]

\* BaseAPI.__init__, which the three kinds of client inherit
BaseAPI_init(kind, environ) ==
    IF Missing(environ.API_SECRET)
    THEN [outcome |-> Raise("ValueError", <<"Error! ", "API_SECRET", " is missing!">>),
          self |-> NoClient]
    ELSE IF Missing(environ.API_KEY)
    THEN [outcome |-> Raise("ValueError", <<"Error! ", "API_KEY", " is missing!">>),
          self |-> NoClient]
    ELSE [outcome |-> Return(<<>>), self |-> Client(kind)]

(***************************************************************************)
(* MarketData facades used by the grid (src/src/kraken_api.py).            *)
(***************************************************************************)

HasKey(mapping, key) ==
    \E i \in 1..Len(mapping) : mapping[i].k = key

Get(mapping, key) ==
    mapping[CHOOSE i \in 1..Len(mapping) : mapping[i].k = key].v

\* The loop  for symbol, data in response['result'].items(): Model(**data,
\* name=symbol)  inside the facade's try block, given what _get_response
\* returned.  None is not subscriptable, a result without the key "result"
\* raises KeyError, a payload the model rejects raises a validation error:
\* each is caught and logged by the facade, which then returns None.
AllRecordsValid(items) ==
    \A i \in 1..Len(items) : items[i].v.t = "rec" /\ items[i].v.valid

RECURSIVE PairRecords(_)
PairRecords(items) ==
    IF Len(items) = 0 THEN <<>>
    ELSE <<[name |-> items[1].k]>> \o PairRecords(Tail(items))

RECURSIVE TickerRecords(_)
TickerRecords(items) ==
    IF Len(items) = 0 THEN <<>>
    ELSE <<[name |-> items[1].k, a |-> <<items[1].v.ask>>, b |-> <<items[1].v.bid>>]>>
         \o TickerRecords(Tail(items))

Decodable(response) ==
    /\ ~response.isNone
    /\ HasKey(response.value, "result")
    /\ Get(response.value, "result").t = "map"
    /\ AllRecordsValid(Get(response.value, "result").items)

\* MarketData.get_tradable_asset_pairs: the list of TradableAssetPair, or None
get_tradable_asset_pairs(transport) ==
    LET response == get_response(transport)
    IN  IF Decodable(response)
        THEN Return(PairRecords(Get(response.value, "result").items))
        ELSE ReturnNone

\* MarketData.get_ticker_information: the list of TickerInfo, or None
get_ticker_information(transport) ==
    LET response == get_response(transport)
    IN  IF Decodable(response)
        THEN Return(TickerRecords(Get(response.value, "result").items))
        ELSE ReturnNone

(***************************************************************************)
(* Requests: headers, the post, and the facades that validate their        *)
(* arguments first (src/src/kraken_api.py).                                *)
(***************************************************************************)

\* An argument that may be None
None == [some |-> FALSE]
Some(v) == [some |-> TRUE, v |-> v]

\* Secrets base64.b64decode accepts; "test_secret" raises binascii.Error
\* (incorrect padding)
Base64Secrets == {"dGVzdF9zZWNyZXQ="}

URI_path(kind) ==
    IF kind = "MarketData" THEN "/0/public/" ELSE "/0/private/"

\* base64.b64decode(secret) for a secret it accepts
b64decode(secret) ==
    IF secret = "dGVzdF9zZWNyZXQ=" THEN "test_secret" ELSE secret

\* hmac.new(key, URI.encode() + sha256((str(nonce) + urlencode(post_data))
\* .encode()).digest(), sha512), base64-encoded: the digest as the term of
\* what it was computed from
signature(key, URI, nonce_of, post_data) ==
    [hmac_sha512 |-> [key |-> key,
                      message |-> [URI |-> URI,
                                   sha256 |-> [nonce |-> nonce_of, urlencode |-> post_data]]]]

\* BaseAPI._generate_headers, for a secret base64 can decode: API-Key is the
\* key of the environment, API-Sign the signature of URI and post_data
generate_headers(environ, URI, post_data) ==
    << [k |-> "API-Key", v |-> environ.API_KEY],
       [k |-> "API-Sign", v |-> signature(b64decode(environ.API_SECRET), URI,
                                          Get(post_data, "nonce"), post_data)] >>

\* One session.post and what came of it
Posted(kind, environ, endpoint, post_data) ==
    [uri |-> <<URI_path(kind), endpoint>>,
     headers |-> generate_headers(environ, <<URI_path(kind), endpoint>>, post_data),
     data |-> post_data]

\* A variant of _get_response that posts a second time when the first
\* attempt gave nothing
execute_retrying(kind, environ, endpoint, post_data, transport) ==
    IF environ.API_SECRET \notin Base64Secrets
    THEN [outcome |-> ReturnNone, requests |-> <<>>]
    ELSE [outcome |-> get_response(transport),
          requests |-> IF get_response(transport).isNone
                       THEN <<Posted(kind, environ, endpoint, post_data),
                              Posted(kind, environ, endpoint, post_data)>>
                       ELSE <<Posted(kind, environ, endpoint, post_data)>>]

\* BaseAPI._get_response on a client of the given kind: the headers are
\* generated, the request is posted with them once, and the answer is
\* unwrapped.  A secret that cannot be decoded raises in _generate_headers,
\* before the post; _get_response catches that as it catches everything.
execute(kind, environ, endpoint, post_data, transport) ==
    IF environ.API_SECRET \notin Base64Secrets
    THEN [outcome |-> ReturnNone, requests |-> <<>>]
    ELSE [outcome |-> get_response(transport),
          requests |-> <<Posted(kind, environ, endpoint, post_data)>>]

\* How a facade call ends: what the caller gets, the requests posted on the
\* way, and whether a nonce was drawn.
Rejected(msg) ==
    [outcome |-> Raise("ValueError", msg), requests |-> <<>>, nonce_drawn |-> FALSE]

Sent(outcome, requests) ==
    [outcome |-> outcome, requests |-> requests, nonce_drawn |-> TRUE]

\* A payload of the given kind, and a JSON number
Payload(t) ==
    [t |-> t, valid |-> TRUE, ask |-> "", bid |-> "", items |-> <<>>]

Number(n) ==
    [t |-> "number", valid |-> TRUE, ask |-> "", bid |-> "", items |-> <<>>, n |-> n]

\* A JSON string
Text(s) ==
    [t |-> "text", valid |-> TRUE, ask |-> "", bid |-> "", items |-> <<>>, s |-> s]

\* The texts that Decimal(text) accepts, among those of the payloads
DecimalTexts == {"0.5", "171288.6158", "0.0000", "-5.1"}

\* Decimal(text) for an accepted text
DecimalOfText(text) ==
    CASE text = "0.5" -> D(5, -1)
      [] text = "171288.6158" -> D(1712886158, -4)
      [] text = "0.0000" -> D(0, -4)
      [] text = "-5.1" -> D(-51, -1)
      [] OTHER -> D(0, 0)

\* An answer without error whose result is the given mapping, and the same
\* with the mapping one level down under a key "result"
Answer(result) ==
    [kind |-> "json", body |-> Envelope(TRUE, <<>>, TRUE, result)]

WrappedAnswer(result) ==
    Answer(<< [k |-> "result", v |-> Map(result)] >>)

Failures ==
    {[kind |-> "timeout", body |-> NullBody],
     [kind |-> "json", body |-> Envelope(TRUE, <<"Invalid nonce">>, FALSE, <<>>)]}

\* response['result'][key] can be read and is a payload of the kind t
HasPayload(response, key, t) ==
    /\ ~response.isNone
    /\ HasKey(response.value, "result")
    /\ Get(response.value, "result").t = "map"
    /\ HasKey(Get(response.value, "result").items, key)
    /\ Get(Get(response.value, "result").items, key).t = t

BookResult == << [k |-> "ETH/XBT", v |-> Payload("book")] >>

\* MarketData.get_order_book
get_order_book(environ, n, pair, count, transport) ==
    IF 1 >= count /\ count <= 500
    THEN Rejected(<<"Invalid count: ", count, ". Must be >= 1 and <= 500.">>)
    ELSE LET post_data == << [k |-> "nonce", v |-> n], [k |-> "pair", v |-> pair],
                             [k |-> "count", v |-> count] >>
             sent == execute("MarketData", environ, "Depth", post_data, transport)
         IN  Sent(IF HasPayload(sent.outcome, pair, "book")
                  THEN Return(<< [k |-> "name", v |-> pair] >>)
                  ELSE ReturnNone,
                  sent.requests)

OhlcResult ==
    << [k |-> "ETH/XBT", v |-> Payload("ticks")], [k |-> "last", v |-> Number(1)] >>

\* What either version of get_ohlc_data does with an accepted interval
post_ohlc(environ, n, pair, interval, since, transport) ==
    LET post_data == << [k |-> "nonce", v |-> n], [k |-> "pair", v |-> pair],
                        [k |-> "interval", v |-> interval],
                        [k |-> "since", v |-> since] >>
        sent == execute("MarketData", environ, "OHLC", post_data, transport)
    IN  Sent(IF /\ HasPayload(sent.outcome, pair, "ticks")
                /\ HasPayload(sent.outcome, "last", "number")
             THEN Return(<< [k |-> "name", v |-> pair] >>)
             ELSE ReturnNone,
             sent.requests)

\* A variant of get_ohlc_data that accepts every interval from 1 to 21600
get_ohlc_data_range(environ, n, pair, interval, since, transport) ==
    IF interval < 1 \/ interval > 21600
    THEN Rejected(<<"Invalid interval: ", interval, ". Allowed values are ",
                    <<1, 5, 15, 30, 60, 240, 1440, 10080, 21600>> >>)
    ELSE post_ohlc(environ, n, pair, interval, since, transport)

\* MarketData.get_ohlc_data
get_ohlc_data(environ, n, pair, interval, since, transport) ==
    IF interval \notin {1, 5, 15, 30, 60, 240, 1440, 10080, 21600}
    THEN Rejected(<<"Invalid interval: ", interval, ". Allowed values are ",
                    <<1, 5, 15, 30, 60, 240, 1440, 10080, 21600>> >>)
    ELSE post_ohlc(environ, n, pair, interval, since, transport)

\* bool(Decimal): a Decimal is falsy exactly when it is zero
Truthy(x) ==
    ~DIsZero(x)

\* Whether price.quantize(Decimal("0.0000")) fits the context's precision;
\* when it does not, quantize raises decimal.InvalidOperation.
Quantizable(price) ==
    Len(price.coef) + price.exp + 4 <= Prec

\* BaseAPI._enforce_precision with the default precision "0.0000":
\* price.quantize(Decimal("0.0000"), rounding=ROUND_DOWN).  The result has
\* exponent -4; digits beyond the fourth decimal are cut off, toward zero.
enforce_precision(price) ==
    [neg  |-> price.neg,
     coef |-> IF price.exp >= -4
              THEN ShiftLeft(price.coef, price.exp + 4)
              ELSE ShiftRight(price.coef, -4 - price.exp),
     exp  |-> -4]

\* str(value), the text a Decimal is posted as
Str(value) ==
    [t |-> "str", of |-> value]

\* The entries of a dict literal whose values are not None, in order
RECURSIVE NotNone(_)
NotNone(items) ==
    IF items = <<>> THEN <<>>
    ELSE LET rest == NotNone(Tail(items))
         IN  IF Head(items).v.some
             THEN <<[k |-> Head(items).k, v |-> Head(items).v.v]>> \o rest
             ELSE rest

\* "txid": ["OU22CG-KLAF2-FWUDD7"], the ids the exchange assigned
TxidList ==
    [t |-> "list", valid |-> TRUE, ask |-> "", bid |-> "",
     items |-> <<"OU22CG-KLAF2-FWUDD7">>]

AddOrderResult ==
    << [k |-> "txid", v |-> TxidList], [k |-> "descr", v |-> Payload("map")] >>

\* Trading.add_order.  The Order is built from response['result'], response
\* being what _get_response returned, with price=price for the required
\* Decimal fields Order.price and OrderDescription.price; any exception in
\* the try block is logged and None returned.
\* a is the record of the arguments; those the model
\* leaves out (trigger, leverage, reduce_only, stptype, oflags, timeinforce,
\* starttm, expiretm, close_ordertype, deadline, validate) keep their default
\* None, so their entries are filtered out of the request.
add_order(environ, n, a, transport) ==
    IF a.userref.some /\ a.cl_ord_id.some
    THEN Rejected(<<"userref and cl_ord_id are mutually exclusive. ", "Provide only one.">>)
    ELSE IF DLe(a.volume, DecimalOfInt(0))
    THEN Rejected(<<"Volume must be a positive decimal.">>)
    ELSE IF /\ a.ordertype = "iceberg"
            /\ a.displayvol.some
            /\ DLt(a.displayvol.v, DDivInt(a.volume, 15))
    THEN Rejected(<<"For iceberg orders. Minimum value is 1 / 15 of volume.">>)
    ELSE IF a.ordertype = "limit" /\ ~a.price.some
    THEN Rejected(<<"Limit orders require a price.">>)
    ELSE IF a.ordertype = "market" /\ a.price.some
    THEN Rejected(<<"Market orders should not be provided a price.">>)
    ELSE IF a.price.some /\ Truthy(a.price.v) /\ ~Quantizable(a.price.v)
    THEN [outcome |-> Raise("InvalidOperation", <<"quantize">>),
          requests |-> <<>>, nonce_drawn |-> TRUE]
    ELSE LET post_data == NotNone(<<
                 [k |-> "nonce", v |-> Some(n)],
                 [k |-> "ordertype", v |-> Some(a.ordertype)],
                 [k |-> "type", v |-> Some(a.type)],
                 [k |-> "volume", v |-> Some(Str(a.volume))],
                 [k |-> "pair", v |-> Some(a.pair)],
                 [k |-> "userref", v |-> a.userref],
                 [k |-> "cl_ord_id", v |-> a.cl_ord_id],
                 [k |-> "displayvol", v |-> a.displayvol],
                 [k |-> "price", v |-> IF a.price.some /\ Truthy(a.price.v)
                                       THEN Some(enforce_precision(a.price.v))
                                       ELSE None],
                 [k |-> "price2", v |-> a.price2],
                 [k |-> "close[price]", v |-> a.close_price],
                 [k |-> "close[price2]", v |-> a.close_price2] >>)
             sent == execute("Trading", environ, "AddOrder", post_data, transport)
         IN  Sent(IF /\ HasPayload(sent.outcome, "descr", "map")
                     /\ HasPayload(sent.outcome, "txid", "list")
                     /\ a.price.some
                  THEN Return([txid |-> Get(Get(sent.outcome.value, "result").items,
                                            "txid").items[1],
                               status |-> "open", price |-> a.price.v])
                  ELSE ReturnNone,
                  sent.requests)

CancelResult ==
    << [k |-> "count", v |-> Number(1)] >>

\* Trading.cancel_order.  The entries txid and cl_ord_id stay in post_data
\* when they are None.  The count is read from response['result']['count'],
\* response being what _get_response returned.
cancel_order(environ, n, txid, cl_ord_id, transport) ==
    IF ~txid.some /\ ~cl_ord_id.some
    THEN Rejected(<<"Either txid, userref or cl_ord_id is required.">>)
    ELSE LET post_data == << [k |-> "nonce", v |-> n], [k |-> "txid", v |-> txid],
                             [k |-> "cl_ord_id", v |-> cl_ord_id] >>
             sent == execute("Trading", environ, "CancelOrder", post_data, transport)
         IN  Sent(IF HasPayload(sent.outcome, "count", "number")
                  THEN Return(Get(Get(sent.outcome.value, "result").items, "count").n)
                  ELSE ReturnNone,
                  sent.requests)

\* Whether Decimal(value) can read a JSON value (a number, or the text of
\* one), and the Decimal it reads
DecimalReadable(value) ==
    \/ value.t = "text" /\ value.s \in DecimalTexts
    \/ value.t = "number"

DecimalOf(value) ==
    IF value.t = "text" THEN DecimalOfText(value.s) ELSE DecimalOfInt(value.n)

\* The amounts an asset of the balance answer can come with: positive, zero,
\* negative, and a text that Decimal() cannot read
AmountTexts == {"171288.6158", "0.0000", "-5.1", "abc"}

\* Answers to Balance: the assets ZUSD and XXBT of test_get_account_balance,
\* each with one of the amounts
BalanceResults ==
    {<< [k |-> "ZUSD", v |-> Text(zusd)], [k |-> "XXBT", v |-> Text(xxbt)] >> :
        zusd \in AmountTexts, xxbt \in AmountTexts}

\* AssetBalance(name=name, amount=Decimal(amount))
AssetBalance(name, amount) ==
    [name |-> name, amount |-> amount]

\* AccountData.get_account_balance: the assets of response['result'] whose
\* amount is positive, in the order of the answer.  Decimal(amount) raises on
\* an amount that is neither a number nor the text of one, and the call then
\* returns None, as it does whenever response['result'] cannot be iterated.
get_account_balance(environ, n, transport) ==
    LET post_data == << [k |-> "nonce", v |-> n] >>
        sent == execute("AccountData", environ, "Balance", post_data, transport)
        response == sent.outcome
        Readable(item) == DecimalReadable(item.v)
        Amount(item) == DecimalOf(item.v)
        Positive(item) == DLt(D(0, 0), Amount(item))
    IN  Sent(IF /\ ~response.isNone
                /\ HasKey(response.value, "result")
                /\ Get(response.value, "result").t = "map"
                /\ \A i \in 1..Len(Get(response.value, "result").items) :
                       Readable(Get(response.value, "result").items[i])
             THEN LET positive == SelectSeq(Get(response.value, "result").items, Positive)
                  IN  Return([i \in 1..Len(positive) |->
                                 AssetBalance(positive[i].k, Amount(positive[i]))])
             ELSE ReturnNone,
             sent.requests)

\* OrderStatusType, the closed set the field status of an Order is validated
\* against
OrderStatusType == {"pending", "open", "closed", "canceled", "expired"}

\* The payload of one order as the exchange sends it; Order(**payload) accepts
\* it when its status is a member of OrderStatusType
OrderPayload(status) ==
    [t |-> "order", valid |-> status \in OrderStatusType, ask |-> "", bid |-> "",
     items |-> <<>>, status |-> status]

\* Two orders keyed by their transaction ids, the second with the given status
OrdersById(status) ==
    << [k |-> "OB45M3-TXID2", v |-> OrderPayload("open")],
       [k |-> "OA12K9-TXID1", v |-> OrderPayload(status)] >>

\* [Order(**order_data, txid=order) for order, order_data in items]
RECURSIVE Orders(_)
Orders(items) ==
    IF Len(items) = 0 THEN <<>>
    ELSE <<[txid |-> items[1].k, status |-> items[1].v.status]>> \o Orders(Tail(items))

\* Whether every payload of the mapping is one Order(...) accepts
AllOrdersValid(items) ==
    \A i \in 1..Len(items) : items[i].v.t = "order" /\ items[i].v.valid

\* AccountData.get_open_orders: the orders of response['result'].get('open'),
\* response being what _get_response returned; any exception in the try
\* block (KeyError, TypeError, ValidationError) is logged and None returned.
get_open_orders(environ, n, trades, userref, cl_ord_id, transport) ==
    LET post_data == NotNone(<< [k |-> "nonce", v |-> Some(n)],
                                [k |-> "trades", v |-> trades],
                                [k |-> "userref", v |-> userref],
                                [k |-> "cl_ord_id", v |-> cl_ord_id] >>)
        sent == execute("AccountData", environ, "OpenOrders", post_data, transport)
        response == sent.outcome
    IN  Sent(IF /\ ~response.isNone
                /\ HasKey(response.value, "result")
                /\ Get(response.value, "result").t = "map"
                /\ HasKey(Get(response.value, "result").items, "open")
                /\ Get(Get(response.value, "result").items, "open").t = "map"
                /\ AllOrdersValid(Get(Get(response.value, "result").items, "open").items)
             THEN Return(Orders(Get(Get(response.value, "result").items, "open").items))
             ELSE ReturnNone,
             sent.requests)

\* AccountData.query_orders_info: the orders of response['result'].items()
query_orders_info(environ, n, txid, trades, transport) ==
    LET post_data == NotNone(<< [k |-> "nonce", v |-> Some(n)],
                                [k |-> "txid", v |-> Some(txid)],
                                [k |-> "trades", v |-> trades] >>)
        sent == execute("AccountData", environ, "QueryOrders", post_data, transport)
        response == sent.outcome
    IN  Sent(IF /\ ~response.isNone
                /\ HasKey(response.value, "result")
                /\ Get(response.value, "result").t = "map"
                /\ AllOrdersValid(Get(response.value, "result").items)
             THEN Return(Orders(Get(response.value, "result").items))
             ELSE ReturnNone,
             sent.requests)

\* response['result'] of what _get_response returned can be read and is a
\* mapping, and that mapping
HasResult(response) ==
    /\ ~response.isNone
    /\ HasKey(response.value, "result")
    /\ Get(response.value, "result").t = "map"

Result(response) ==
    Get(response.value, "result").items

\* A mapping holds the key with a value of the kind t
Holds(mapping, key, t) ==
    HasKey(mapping, key) /\ Get(mapping, key).t = t

\* MarketData.get_server_time: TimeData(**response['result']), with
\* unixtime: int and rfc1123: str
get_server_time(environ, n, transport) ==
    LET post_data == << [k |-> "nonce", v |-> n] >>
        sent == execute("MarketData", environ, "Time", post_data, transport)
        response == sent.outcome
    IN  Sent(IF /\ HasResult(response)
                /\ Holds(Result(response), "unixtime", "number")
                /\ Holds(Result(response), "rfc1123", "text")
             THEN Return([unixtime |-> Get(Result(response), "unixtime").n,
                          rfc1123 |-> Get(Result(response), "rfc1123").s])
             ELSE ReturnNone,
             sent.requests)

\* SystemStatusEnum, the closed set the field status of a SystemStatus is
\* validated against
SystemStatusEnum == {"online", "maintenance", "cancel_only", "post_only"}

\* MarketData.get_system_status: SystemStatus(**response['result']), with
\* status: SystemStatusEnum and timestamp: str
get_system_status(environ, n, transport) ==
    LET post_data == << [k |-> "nonce", v |-> n] >>
        sent == execute("MarketData", environ, "SystemStatus", post_data, transport)
        response == sent.outcome
    IN  Sent(IF /\ HasResult(response)
                /\ Holds(Result(response), "status", "text")
                /\ Get(Result(response), "status").s \in SystemStatusEnum
                /\ Holds(Result(response), "timestamp", "text")
             THEN Return([status |-> Get(Result(response), "status").s,
                          timestamp |-> Get(Result(response), "timestamp").s])
             ELSE ReturnNone,
             sent.requests)

\* An argument that is a list of strings; None and Some(v) are the others
ListArg(items) ==
    [some |-> TRUE, list |-> TRUE, v |-> items]

\* isinstance(arg, list)
IsList(arg) ==
    "list" \in DOMAIN arg

\* MarketData.get_asset_info: asset is posted joined by commas when it is a
\* list and as it is otherwise (None included, as aclass is); the AssetInfo
\* of the symbols of response['result'] that are in the list, or equal to
\* asset.  Only those payloads are validated.
get_asset_info(environ, n, asset, aclass, transport) ==
    LET post_data == << [k |-> "nonce", v |-> n],
                        [k |-> "asset", v |-> IF IsList(asset)
                                              THEN Some(Join(asset.v, ","))
                                              ELSE asset],
                        [k |-> "aclass", v |-> aclass] >>
        sent == execute("MarketData", environ, "Assets", post_data, transport)
        response == sent.outcome
        wanted == IF IsList(asset) THEN {asset.v[i] : i \in 1..Len(asset.v)}
                  ELSE IF asset.some THEN {asset.v} ELSE {}
        Wanted(item) == item.k \in wanted
    IN  Sent(IF /\ HasResult(response)
                /\ AllRecordsValid(SelectSeq(Result(response), Wanted))
             THEN Return(PairRecords(SelectSeq(Result(response), Wanted)))
             ELSE ReturnNone,
             sent.requests)

\* MarketData.get_recent_trades: the guard is  1 >= count <= 1000, the
\* endpoint 'Depth'; RecentTrades(name=pair, tick_data=..., last=...) from
\* response['result'][pair] and response['result']['last'] (last: str)
get_recent_trades(environ, n, pair, since, count, transport) ==
    IF 1 >= count /\ count <= 1000
    THEN Rejected(<<"Invalid count: ", count, ". Must be >= 1 and <= 500.">>)
    ELSE LET post_data == << [k |-> "nonce", v |-> n], [k |-> "pair", v |-> pair],
                             [k |-> "since", v |-> since],
                             [k |-> "count", v |-> count] >>
             sent == execute("MarketData", environ, "Depth", post_data, transport)
         IN  Sent(IF /\ HasPayload(sent.outcome, pair, "trades")
                     /\ HasPayload(sent.outcome, "last", "text")
                  THEN Return(<< [k |-> "name", v |-> pair] >>)
                  ELSE ReturnNone,
                  sent.requests)

\* MarketData.get_recent_spreads: RecentSpreads(pair=pair, spread_data=...,
\* last=...) from response['result'][pair] and response['result']['last']
\* (last: int)
get_recent_spreads(environ, n, pair, since, transport) ==
    LET post_data == << [k |-> "nonce", v |-> n], [k |-> "pair", v |-> pair],
                        [k |-> "since", v |-> since] >>
        sent == execute("MarketData", environ, "Spread", post_data, transport)
    IN  Sent(IF /\ HasPayload(sent.outcome, pair, "spreads")
                /\ HasPayload(sent.outcome, "last", "number")
             THEN Return(<< [k |-> "pair", v |-> pair] >>)
             ELSE ReturnNone,
             sent.requests)

\* AccountData.get_extended_account_balance: one
\* ExtendedAssetBalance(**data, name=name) per entry of response['result']
get_extended_account_balance(environ, n, transport) ==
    LET post_data == << [k |-> "nonce", v |-> n] >>
        sent == execute("AccountData", environ, "BalanceEx", post_data, transport)
        response == sent.outcome
    IN  Sent(IF HasResult(response) /\ AllRecordsValid(Result(response))
             THEN Return(PairRecords(Result(response)))
             ELSE ReturnNone,
             sent.requests)

\* The fields of TradeBalance, each a Decimal with the default Decimal("0.0")
TradeBalanceFields == {"eb", "tb", "m", "n", "c", "v", "e", "mf", "ml", "uv"}

\* AccountData.get_trade_balance: asset is posted as it is, None included;
\* TradeBalance(**response['result']): the fields the answer holds are read
\* as Decimal, the others keep their default, other keys are ignored
get_trade_balance(environ, n, asset, transport) ==
    LET post_data == << [k |-> "nonce", v |-> n], [k |-> "asset", v |-> asset] >>
        sent == execute("AccountData", environ, "TradeBalance", post_data, transport)
        response == sent.outcome
    IN  Sent(IF /\ HasResult(response)
                /\ \A i \in 1..Len(Result(response)) :
                       Result(response)[i].k \in TradeBalanceFields
                           => DecimalReadable(Result(response)[i].v)
             THEN Return([f \in TradeBalanceFields |->
                             IF HasKey(Result(response), f)
                             THEN DecimalOf(Get(Result(response), f))
                             ELSE D(0, -1)])
             ELSE ReturnNone,
             sent.requests)

\* AccountData.get_closed_orders: the orders of
\* response['result'].get('closed'); a.* are the optional arguments
get_closed_orders(environ, n, a, transport) ==
    LET post_data == NotNone(<< [k |-> "nonce", v |-> Some(n)],
                                [k |-> "trades", v |-> a.trades],
                                [k |-> "userref", v |-> a.userref],
                                [k |-> "cl_ord_id", v |-> a.cl_ord_id],
                                [k |-> "start", v |-> a.start],
                                [k |-> "end", v |-> a.end],
                                [k |-> "ofs", v |-> a.ofs],
                                [k |-> "closetime", v |-> a.closetime],
                                [k |-> "consolidate_taker", v |-> a.consolidate_taker] >>)
        sent == execute("AccountData", environ, "ClosedOrders", post_data, transport)
        response == sent.outcome
    IN  Sent(IF /\ HasResult(response)
                /\ Holds(Result(response), "closed", "map")
                /\ AllOrdersValid(Get(Result(response), "closed").items)
             THEN Return(Orders(Get(Result(response), "closed").items))
             ELSE ReturnNone,
             sent.requests)

\* OrderSide, the closed set the field type of a Trade is validated against
OrderSide == {"buy", "sell"}

\* The payload of one trade as the exchange sends it; Trade(**payload)
\* accepts it when its type is a member of OrderSide
TradePayload(type) ==
    [t |-> "trade", valid |-> type \in OrderSide, ask |-> "", bid |-> "",
     items |-> <<>>, type |-> type]

\* Two trades keyed by their transaction ids, the second of the given type
TradesById(type) ==
    << [k |-> "THVRQM-33VKH-UCI7BS", v |-> TradePayload("sell")],
       [k |-> "TCCCTY-WE2O6-P3NB37", v |-> TradePayload(type)] >>

\* [Trade(**trade_data, txid=trade) for trade, trade_data in items]
RECURSIVE Trades(_)
Trades(items) ==
    IF Len(items) = 0 THEN <<>>
    ELSE <<[txid |-> items[1].k, type |-> items[1].v.type]>> \o Trades(Tail(items))

AllTradesValid(items) ==
    \A i \in 1..Len(items) : items[i].v.t = "trade" /\ items[i].v.valid

\* AccountData.get_trades_history: the trades of
\* response['result']['trades'].items(); a.* are the optional arguments
get_trades_history(environ, n, a, transport) ==
    LET post_data == NotNone(<< [k |-> "nonce", v |-> Some(n)],
                                [k |-> "type", v |-> a.type],
                                [k |-> "trades", v |-> a.trades],
                                [k |-> "start", v |-> a.start],
                                [k |-> "end", v |-> a.end],
                                [k |-> "ofs", v |-> a.ofs],
                                [k |-> "consolidate_taker", v |-> a.consolidate_taker],
                                [k |-> "ledgers", v |-> a.ledgers] >>)
        sent == execute("AccountData", environ, "TradesHistory", post_data, transport)
        response == sent.outcome
    IN  Sent(IF /\ HasResult(response)
                /\ Holds(Result(response), "trades", "map")
                /\ AllTradesValid(Get(Result(response), "trades").items)
             THEN Return(Trades(Get(Result(response), "trades").items))
             ELSE ReturnNone,
             sent.requests)

\* AccountData.querey_trades_info: the trades of the keys of
\* response['result']
querey_trades_info(environ, n, txid, trades, transport) ==
    LET post_data == NotNone(<< [k |-> "nonce", v |-> Some(n)],
                                [k |-> "txid", v |-> Some(txid)],
                                [k |-> "trades", v |-> trades] >>)
        sent == execute("AccountData", environ, "QueryTrades", post_data, transport)
        response == sent.outcome
    IN  Sent(IF HasResult(response) /\ AllTradesValid(Result(response))
             THEN Return(Trades(Result(response)))
             ELSE ReturnNone,
             sent.requests)

(***************************************************************************)
(* The records Order and OrderDescription (pydantic models).  A field is   *)
(* first validated against its declared type; the validator none_to_null  *)
(* of the class, declared with field_validator("*"), then runs on the      *)
(* validated value.                                                        *)
(***************************************************************************)
StrValue(s) == [t |-> "str", s |-> s]
DecimalValue(d) == [t |-> "Decimal", d |-> d]

\* Whether a raw text passes the validation of a field of the given type
Accepts(type, raw) ==
    type = "str" \/ raw \in DecimalTexts

\* The validated value of a raw text the type accepts
Validated(type, raw) ==
    IF type = "str" THEN StrValue(raw) ELSE DecimalValue(DecimalOfText(raw))

\* OrderDescription.none_to_null: None if value == "none" else value
OrderDescription_none_to_null(value) ==
    IF value.t = "str" /\ value.s = "none" THEN None ELSE Some(value)

\* Order.none_to_null: None if value == "None" else value
Order_none_to_null(value) ==
    IF value.t = "str" /\ value.s = "None" THEN None ELSE Some(value)

\* The declared types of the fields of the payloads: Decimal and
\* Optional[Decimal] fields, and Optional[str] fields
OrderDescriptionFields ==
    [price |-> "Decimal", price2 |-> "Decimal", leverage |-> "str", close |-> "str"]

OrderFields ==
    [price |-> "Decimal", vol |-> "Decimal", refid |-> "str", misc |-> "str"]

\* OrderDescription(pair=..., type=..., ordertype=..., **payload)
OrderDescription(payload) ==
    IF \E f \in DOMAIN payload : ~Accepts(OrderDescriptionFields[f], payload[f])
    THEN Raise("ValidationError", <<>>)
    ELSE Return([f \in DOMAIN payload |->
             OrderDescription_none_to_null(Validated(OrderDescriptionFields[f], payload[f]))])

\* Order(txid=..., status=..., descr=..., **payload)
Order(payload) ==
    IF \E f \in DOMAIN payload : ~Accepts(OrderFields[f], payload[f])
    THEN Raise("ValidationError", <<>>)
    ELSE Return([f \in DOMAIN payload |->
             Order_none_to_null(Validated(OrderFields[f], payload[f]))])

(***************************************************************************)
(* GridStrategy and Rung (src/src/grid.py).                                *)
(***************************************************************************)

\* Rung.__init__: a price, a volume, and no order
Rung(price, volume) ==
    [price |-> price, volume |-> volume, order |-> "None"]

\* base_price * ((1 + percentage) ** i)
rung_price(base_price, percentage, i) ==
    DMul(base_price, DPow(DAdd(DecimalOfInt(1), percentage, Prec), i), Prec)

\* total_volume / rung_count
rung_volume(total_volume, rung_count) ==
    DDivInt(total_volume, rung_count)

\* The loop  for i in range(rung_count): rungs.append(Rung(price, volume)),
\* from i on.
RECURSIVE append_rungs(_, _, _, _, _)
append_rungs(base_price, percentage, total_volume, rung_count, i) ==
    IF i >= rung_count THEN <<>>
    ELSE <<Rung(rung_price(base_price, percentage, i),
                rung_volume(total_volume, rung_count))>>
         \o append_rungs(base_price, percentage, total_volume, rung_count, i + 1)

Unset == "unset"

\* A rejection by _validate_inputs: ValueError(f"Error: {field}{text}{value}.")
InvalidInput(field, text, value) ==
    [kind |-> "raise", exc |-> "ValueError", field |-> field, text |-> text,
     value |-> value]

Passed ==
    [kind |-> "return", exc |-> ""]

\* A variant of _validate_inputs that lets a base_price of 0 through
validate_inputs_zero_price(self) ==
    IF DLt(self.base_price, DecimalOfInt(0))
    THEN InvalidInput("base_price", " must be positive, was ",
                      self.base_price)
    ELSE IF DLe(self.percentage, DecimalOfInt(0))
    THEN InvalidInput("percentage", " must be greater than 0, was ",
                      self.percentage)
    ELSE IF DLe(self.total_volume, DecimalOfInt(0))
    THEN InvalidInput("total_volume", " must be greater than 0, was ",
                      self.total_volume)
    ELSE IF self.rung_count < 2
    THEN InvalidInput("rung_count", " must be greater than 2, was ",
                      self.rung_count)
    ELSE Passed

\* GridStrategy._validate_inputs
validate_inputs(self) ==
    IF DLe(self.base_price, DecimalOfInt(0))
    THEN InvalidInput("base_price", " must be positive, was ",
                      self.base_price)
    ELSE IF DLe(self.percentage, DecimalOfInt(0))
    THEN InvalidInput("percentage", " must be greater than 0, was ",
                      self.percentage)
    ELSE IF DLe(self.total_volume, DecimalOfInt(0))
    THEN InvalidInput("total_volume", " must be greater than 0, was ",
                      self.total_volume)
    ELSE IF self.rung_count < 2
    THEN InvalidInput("rung_count", " must be greater than 2, was ",
                      self.rung_count)
    ELSE Passed

\* What market_client.get_tradable_asset_pairs / get_ticker_information hand
\* to the strategy.  Unpatched, it is what the facade computes from the
\* transport's answer: None or a list.  Patched as in test_grid.py
\* (unittest.mock.patch of the two MarketData methods), it is the mock's
\* return_value, and no request is made.
NoneValue == [type |-> "None"]
ListValue(items) == [type |-> "list", items |-> items]
TickerInfo(a, b) == [type |-> "TickerInfo", a |-> a, b |-> b]

FacadeValue(outcome) ==
    IF outcome.isNone THEN NoneValue ELSE ListValue(outcome.value)

pair_list_of(market) ==
    IF market.patched THEN market.pairs_return
    ELSE FacadeValue(get_tradable_asset_pairs(market.pairs_transport))

ticker_info_of(market) ==
    IF market.patched THEN market.ticker_return
    ELSE FacadeValue(get_ticker_information(market.ticker_transport))

Names(items) ==
    {items[i].name : i \in 1..Len(items)}

\* GridStrategy._validate_pair: any(p.name == pair for p in pair_list);
\* iterating None raises TypeError.
validate_pair(pair, pair_list) ==
    IF pair_list.type = "None"
    THEN Raise("TypeError", <<"'NoneType' object is not iterable">>)
    ELSE IF pair \notin Names(pair_list.items)
    THEN Raise("ValueError", <<"Error: ", pair, " does not represent a viable asset pair.">>)
    ELSE Passed

\* A variant of update_price that reads the ask from b and the bid from a
update_price_swapped(self, ticker_info) ==
    IF ticker_info.type = "TickerInfo"
    THEN [outcome |-> Passed,
          self |-> [self EXCEPT !.current_ask = ticker_info.b[1],
                                !.current_bid = ticker_info.a[1]]]
    ELSE [outcome |-> Raise("AttributeError", <<"object has no attribute 'a'">>),
          self |-> self]

\* GridStrategy.update_price: ticker_info.a[0] and ticker_info.b[0]; neither
\* None nor a list has an attribute a.
update_price(self, ticker_info) ==
    IF ticker_info.type = "TickerInfo"
    THEN [outcome |-> Passed,
          self |-> [self EXCEPT !.current_ask = ticker_info.a[1],
                                !.current_bid = ticker_info.b[1]]]
    ELSE [outcome |-> Raise("AttributeError", <<"object has no attribute 'a'">>),
          self |-> self]

\* A variant of create_rungs that clears the ladder before it validates
create_rungs_clear_first(self) ==
    IF validate_inputs(self).kind = "raise"
    THEN [outcome |-> validate_inputs(self), self |-> [self EXCEPT !.rungs = <<>>]]
    ELSE [outcome |-> Passed,
          self |-> [self EXCEPT !.rungs =
                        append_rungs(self.base_price, self.percentage,
                                     self.total_volume, self.rung_count, 0)]]

\* A variant of create_rungs that recomputes the rungs in place, each new
\* rung keeping the order of the rung it replaces
create_rungs_in_place(self) ==
    IF validate_inputs(self).kind = "raise"
    THEN [outcome |-> validate_inputs(self), self |-> self]
    ELSE LET built == append_rungs(self.base_price, self.percentage,
                                   self.total_volume, self.rung_count, 0)
         IN  [outcome |-> Passed,
              self |-> [self EXCEPT !.rungs =
                            [i \in 1..Len(built) |->
                                IF i <= Len(self.rungs)
                                THEN [built[i] EXCEPT !.order = self.rungs[i].order]
                                ELSE built[i]]]]

\* A variant of create_rungs that does not clear the ladder first
create_rungs_without_clear(self) ==
    IF validate_inputs(self).kind = "raise"
    THEN [outcome |-> validate_inputs(self), self |-> self]
    ELSE [outcome |-> Passed,
          self |-> [self EXCEPT !.rungs = self.rungs \o
                        append_rungs(self.base_price, self.percentage,
                                     self.total_volume, self.rung_count, 0)]]

\* GridStrategy.create_rungs: validate, clear, rebuild
create_rungs(self) ==
    IF validate_inputs(self).kind = "raise"
    THEN [outcome |-> validate_inputs(self), self |-> self]
    ELSE [outcome |-> Passed,
          self |-> [self EXCEPT !.rungs =
                        append_rungs(self.base_price, self.percentage,
                                     self.total_volume, self.rung_count, 0)]]

\* A variant of __init__ that builds the ladder before it syncs the price
GridStrategy_rungs_before_price(pair, base_price, percentage, total_volume, rung_count, market) ==
    LET saved == [exists |-> TRUE, pair |-> Unset,
                  base_price |-> base_price, percentage |-> percentage,
                  total_volume |-> total_volume, rung_count |-> rung_count,
                  rungs |-> <<>>, open_orders |-> <<>>, closed_orders |-> <<>>,
                  current_ask |-> Unset, current_bid |-> Unset]
        inputs == validate_inputs(saved)
        paired == validate_pair(pair, pair_list_of(market))
        named  == [saved EXCEPT !.pair = pair,
                                !.rungs = append_rungs(base_price, percentage,
                                                       total_volume, rung_count, 0)]
        priced == update_price(named, ticker_info_of(market))
        posted == IF market.patched THEN 0 ELSE 1
    IN  IF inputs.kind = "raise"
        THEN [outcome |-> inputs, self |-> saved, posts |-> 0, calls |-> <<>>,
              steps |-> <<"_validate_inputs">>]
        ELSE IF paired.kind = "raise"
        THEN [outcome |-> paired, self |-> saved, posts |-> posted,
              calls |-> <<"get_tradable_asset_pairs">>,
              steps |-> <<"_validate_inputs", "_validate_pair">>]
        ELSE IF priced.outcome.kind = "raise"
        THEN [outcome |-> priced.outcome, self |-> named, posts |-> 2 * posted,
              calls |-> <<"get_tradable_asset_pairs", "get_ticker_information">>,
              steps |-> <<"_validate_inputs", "_validate_pair", "update_price">>]
        ELSE [outcome |-> Passed,
              self |-> priced.self,
              posts |-> 2 * posted,
              calls |-> <<"get_tradable_asset_pairs", "get_ticker_information">>,
              steps |-> <<"_validate_inputs", "_validate_pair", "update_price",
                          "rungs">>]

\* GridStrategy.__init__, start to end: the outcome, the object as it is left,
\* the requests posted, the facade methods called and the steps taken.  The
\* three clients it creates first find API_KEY and API_SECRET in the
\* environment, as conftest.py provides them.
GridStrategy(pair, base_price, percentage, total_volume, rung_count, market) ==
    LET saved == [exists |-> TRUE, pair |-> Unset,
                  base_price |-> base_price, percentage |-> percentage,
                  total_volume |-> total_volume, rung_count |-> rung_count,
                  rungs |-> <<>>, open_orders |-> <<>>, closed_orders |-> <<>>,
                  current_ask |-> Unset, current_bid |-> Unset]
        inputs == validate_inputs(saved)
        paired == validate_pair(pair, pair_list_of(market))
        named  == [saved EXCEPT !.pair = pair]
        priced == update_price(named, ticker_info_of(market))
        posted == IF market.patched THEN 0 ELSE 1
    IN  IF inputs.kind = "raise"
        THEN [outcome |-> inputs, self |-> saved, posts |-> 0, calls |-> <<>>,
              steps |-> <<"_validate_inputs">>]
        ELSE IF paired.kind = "raise"
        THEN [outcome |-> paired, self |-> saved, posts |-> posted,
              calls |-> <<"get_tradable_asset_pairs">>,
              steps |-> <<"_validate_inputs", "_validate_pair">>]
        ELSE IF priced.outcome.kind = "raise"
        THEN [outcome |-> priced.outcome, self |-> named, posts |-> 2 * posted,
              calls |-> <<"get_tradable_asset_pairs", "get_ticker_information">>,
              steps |-> <<"_validate_inputs", "_validate_pair", "update_price">>]
        ELSE [outcome |-> Passed,
              self |-> [priced.self EXCEPT !.rungs =
                            append_rungs(base_price, percentage, total_volume,
                                         rung_count, 0)],
              posts |-> 2 * posted,
              calls |-> <<"get_tradable_asset_pairs", "get_ticker_information">>,
              steps |-> <<"_validate_inputs", "_validate_pair", "update_price",
                          "rungs">>]

(***************************************************************************)
(* The client on its own: calls of its methods, and time passing.          *)
(***************************************************************************)

Pairs == {"ETH/XBT", "ABC/EFG"}

NoStrategy ==
    [exists |-> FALSE]

NoHistory ==
    [edits |-> 0, built |-> <<>>]

LogNonce(log, n) ==
    IF Len(log) < MaxNonceLog THEN Append(log, n) ELSE Append(Tail(log), n)

Init ==
    /\ now = 0
    /\ nonces = <<>>
    /\ op = [name |-> "none"]
    /\ strategy = NoStrategy
    /\ history = NoHistory
    /\ env = Configured
    /\ client = Client("MarketData")

\* time passes
Tick ==
    /\ now < MaxNow
    /\ now' = now + 1
    /\ UNCHANGED <<env, client, nonces, op, strategy, history>>

\* client._nonce()
CallNonce ==
    /\ nonces' = LogNonce(nonces, nonce(now))
    /\ op' = [name |-> "_nonce", outcome |-> nonce(now)]
    /\ UNCHANGED <<env, client, now, strategy, history>>

\* client._process_response(response)
CallProcessResponse ==
    \E response \in Envelopes :
        /\ op' = [name |-> "_process_response", response |-> response,
                  outcome |-> process_response(response)]
        /\ UNCHANGED <<env, client, now, nonces, strategy, history>>

\* client._get_response(endpoint, post_data), the transport answering
CallGetResponse ==
    \E transport \in Transports :
        /\ op' = [name |-> "_get_response", transport |-> transport,
                  outcome |-> get_response(transport), posts |-> 1]
        /\ UNCHANGED <<env, client, now, nonces, strategy, history>>

\* client.get_tradable_asset_pairs(pair)
CallGetTradableAssetPairs ==
    \E pair \in Pairs, transport \in Transports :
        /\ nonces' = LogNonce(nonces, nonce(now))
        /\ op' = [name |-> "get_tradable_asset_pairs", pair |-> pair,
                  transport |-> transport, nonce |-> nonce(now),
                  outcome |-> get_tradable_asset_pairs(transport), posts |-> 1]
        /\ UNCHANGED <<env, client, now, strategy, history>>

\* client.get_ticker_information(pair)
CallGetTickerInformation ==
    \E pair \in Pairs, transport \in Transports :
        /\ nonces' = LogNonce(nonces, nonce(now))
        /\ op' = [name |-> "get_ticker_information", pair |-> pair,
                  transport |-> transport, nonce |-> nonce(now),
                  outcome |-> get_ticker_information(transport), posts |-> 1]
        /\ UNCHANGED <<env, client, now, strategy, history>>

Next ==
    \/ Tick
    \/ CallNonce
    \/ CallProcessResponse
    \/ CallGetResponse
    \/ CallGetTradableAssetPairs
    \/ CallGetTickerInformation

Spec == Init /\ [][Next]_vars

(***************************************************************************)
(* The strategy: one construction, then calls of its methods and           *)
(* assignments to its public parameters.                                   *)
(***************************************************************************)

\* 1.0000000000000000000000000001: one digit more than the context keeps
LongPrice ==
    [neg |-> FALSE, coef |-> <<1>> \o Zeros(Prec - 1) \o <<1>>, exp |-> -Prec]

BasePrices == {D(-1, 0), D(0, 0), D(30000, -1), LongPrice}
Percentages == {D(-1, -1), D(0, 0), D(2, -2), D(1, -28)}
TotalVolumes == {D(-10, 0), D(0, 0), D(150, 0), D(100, 0)}
RungCounts == 0..MaxRungCount

\* The transport's answers to the strategy's own market client
GridTransports ==
    {[kind |-> "timeout", body |-> NullBody],
     [kind |-> "json", body |-> Envelope(TRUE, <<"Invalid nonce">>, FALSE, <<>>)],
     [kind |-> "json", body |-> Envelope(TRUE, <<>>, TRUE, PairsResult)],
     [kind |-> "json", body |-> Envelope(TRUE, <<>>, TRUE, WrappedPairsResult)],
     [kind |-> "json", body |-> Envelope(TRUE, <<>>, TRUE, WrappedTickerResult)]}

\* mock_tradable_pairs of test_grid.py, and an empty list
MockPairLists == {ListValue(<<[name |-> "ETH/XBT"]>>), ListValue(<<>>)}

\* TickerInfo objects a stubbed get_ticker_information can return: a and b are
\* List[str], so the quotes are strings.  (The fixture mock_ticker_info of
\* test_grid.py gives them as Decimal, which the class rejects with a
\* ValidationError: it yields no object.)
TickerInfos == {TickerInfo(<<Quote1>>, <<Quote1>>), TickerInfo(<<Quote2>>, <<Quote1>>)}

PatchedMarket(pairs_return, ticker_return) ==
    [patched |-> TRUE, pairs_return |-> pairs_return, ticker_return |-> ticker_return,
     pairs_transport |-> [kind |-> "timeout", body |-> NullBody],
     ticker_transport |-> [kind |-> "timeout", body |-> NullBody]]

RealMarket(pairs_transport, ticker_transport) ==
    [patched |-> FALSE, pairs_return |-> NoneValue, ticker_return |-> NoneValue,
     pairs_transport |-> pairs_transport, ticker_transport |-> ticker_transport]

StubbedMarket ==
    PatchedMarket(ListValue(<<[name |-> "ETH/XBT"]>>), TickerInfo(<<Quote1>>, <<Quote1>>))

\* What a construction can meet
Markets ==
    {PatchedMarket(l, TickerInfo(<<Quote1>>, <<Quote1>>)) : l \in MockPairLists}
    \cup {RealMarket(p, t) : p \in GridTransports, t \in GridTransports}

\* What a later update_price can meet
TickerMarkets ==
    {PatchedMarket(ListValue(<<>>), t) : t \in TickerInfos}
    \cup {RealMarket([kind |-> "timeout", body |-> NullBody], t) : t \in
             {[kind |-> "timeout", body |-> NullBody],
              [kind |-> "json", body |-> Envelope(TRUE, <<>>, TRUE, WrappedTickerResult)]}}

Params(self) ==
    [base_price |-> self.base_price, percentage |-> self.percentage,
     total_volume |-> self.total_volume, rung_count |-> self.rung_count]

\* One ladder generation: who built it, from which parameters, and the rungs
Generation(by, self) ==
    [by |-> by, params |-> Params(self), rungs |-> self.rungs]

\* The constructor's generation and the latest two
LogGeneration(built, g) ==
    IF Len(built) < 3 THEN Append(built, g) ELSE <<built[1], built[3], g>>

\* GridStrategy(pair, base_price, percentage, total_volume, rung_count).
\* Each request of the constructor draws its nonce when it is made and then
\* waits for the answer, the clock running on: the second request draws its
\* nonce after the wait of the first.
Construct ==
    /\ op.name = "none"
    /\ ~strategy.exists
    /\ \E pair \in Pairs, base_price \in BasePrices, percentage \in Percentages,
          total_volume \in TotalVolumes, rung_count \in RungCounts,
          market \in Markets :
        \E made \in {GridStrategy(pair, base_price, percentage, total_volume,
                                  rung_count, market)} :
        \E first_wait \in 0..(IF made.posts >= 1 THEN MaxNow - now ELSE 0) :
        \E second_wait \in 0..(IF made.posts >= 2 THEN MaxNow - now - first_wait ELSE 0) :
            /\ op' = [name |-> "GridStrategy", pair |-> pair,
                      base_price |-> base_price, percentage |-> percentage,
                      total_volume |-> total_volume, rung_count |-> rung_count,
                      market |-> market, outcome |-> made.outcome,
                      posts |-> made.posts, calls |-> made.calls,
                      steps |-> made.steps, left |-> made.self]
            /\ strategy' = IF made.outcome.kind = "return" THEN made.self ELSE NoStrategy
            /\ history' = IF made.outcome.kind = "return"
                          THEN [edits |-> 0,
                                built |-> <<Generation("__init__", made.self)>>]
                          ELSE NoHistory
            /\ nonces' = IF made.posts = 0 THEN nonces
                          ELSE IF made.posts = 1 THEN LogNonce(nonces, nonce(now))
                          ELSE LogNonce(LogNonce(nonces, nonce(now)),
                                        nonce(now + first_wait))
            /\ now' = now + first_wait + second_wait
    /\ UNCHANGED <<env, client>>

\* strategy.create_rungs()
CreateRungs ==
    /\ strategy.exists
    /\ \E made \in {create_rungs(strategy)} :
           /\ op' = [name |-> "create_rungs", before |-> strategy,
                     outcome |-> made.outcome]
           /\ strategy' = made.self
           /\ history' = IF made.outcome.kind = "return"
                         THEN [history EXCEPT !.built =
                                  LogGeneration(@, Generation("create_rungs", made.self))]
                         ELSE history
    /\ UNCHANGED <<env, client, now, nonces>>

\* strategy.update_price()
UpdatePrice ==
    /\ strategy.exists
    /\ \E market \in TickerMarkets :
        LET made == update_price(strategy, ticker_info_of(market))
            posts == IF market.patched THEN 0 ELSE 1
        IN  /\ op' = [name |-> "update_price", before |-> strategy,
                      pair |-> strategy.pair,
                      ticker_info |-> ticker_info_of(market),
                      outcome |-> made.outcome, posts |-> posts]
            /\ strategy' = made.self
            /\ nonces' = IF posts = 1 THEN LogNonce(nonces, nonce(now)) ELSE nonces
    /\ UNCHANGED <<env, client, now, history>>

\* strategy.base_price = value, and likewise for the other public parameters
SetParam ==
    /\ strategy.exists
    /\ history.edits < MaxEdits
    /\ \/ \E v \in BasePrices :
            /\ strategy' = [strategy EXCEPT !.base_price = v]
            /\ op' = [name |-> "set", field |-> "base_price"]
       \/ \E v \in Percentages :
            /\ strategy' = [strategy EXCEPT !.percentage = v]
            /\ op' = [name |-> "set", field |-> "percentage"]
       \/ \E v \in TotalVolumes :
            /\ strategy' = [strategy EXCEPT !.total_volume = v]
            /\ op' = [name |-> "set", field |-> "total_volume"]
       \/ \E v \in RungCounts :
            /\ strategy' = [strategy EXCEPT !.rung_count = v]
            /\ op' = [name |-> "set", field |-> "rung_count"]
    /\ history' = [history EXCEPT !.edits = @ + 1]
    /\ UNCHANGED <<env, client, now, nonces>>

\* Constructions of every kind, and regeneration of the ladder
GridNext ==
    \/ Construct
    \/ CreateRungs

GridSpec == Init /\ [][GridNext]_vars

\* The strategy GridStrategy("ETH/XBT", 3000.0, 0.02, 150, 5) as its
\* constructor leaves it when the market client is stubbed to list the pair
\* and to quote 30300.10000 for ask and bid
BuiltStrategy ==
    GridStrategy("ETH/XBT", D(30000, -1), D(2, -2), D(150, 0), 5, StubbedMarket)

BuiltInit ==
    /\ now = 0
    /\ nonces = <<>>
    /\ op = [name |-> "GridStrategy", outcome |-> BuiltStrategy.outcome]
    /\ strategy = BuiltStrategy.self
    /\ history = [edits |-> 0,
                  built |-> <<Generation("__init__", BuiltStrategy.self)>>]
    /\ env = Configured
    /\ client = NoClient

\* A built strategy whose parameters are reassigned and whose ladder is
\* regenerated
EditNext ==
    \/ SetParam
    \/ CreateRungs

EditSpec == BuiltInit /\ [][EditNext]_vars

\* A built strategy whose price is refreshed as time passes
PriceNext ==
    \/ Tick
    \/ UpdatePrice
    \/ CreateRungs

PriceSpec == BuiltInit /\ [][PriceNext]_vars


MaxAttached == 1

\* The rungs that hold an order
Attached(rungs) ==
    {i \in 1..Len(rungs) : rungs[i].order # "None"}

\* strategy.rungs[i].order = order, for an order placed for the rung
AttachOrder ==
    /\ strategy.exists
    /\ Cardinality(Attached(strategy.rungs)) < MaxAttached
    /\ \E i \in 1..Len(strategy.rungs) :
        /\ strategy.rungs[i].order = "None"
        /\ strategy' = [strategy EXCEPT !.rungs[i].order = "OU22CG-KLAF2-FWUDD7"]
        /\ op' = [name |-> "attach", rung |-> i]
    /\ UNCHANGED <<env, client, now, nonces, history>>

\* A built strategy whose rungs receive orders, whose parameters are
\* reassigned and whose ladder is regenerated
LadderNext ==
    \/ AttachOrder
    \/ SetParam
    \/ CreateRungs

LadderSpec == BuiltInit /\ [][LadderNext]_vars

(***************************************************************************)
(* Claims about the client.                                                *)
(***************************************************************************)

\* msg contains the pieces of part, in order and adjacent
Contains(msg, part) ==
    \E i \in 0..(Len(msg) - Len(part)) : SubSeq(msg, i + 1, i + Len(part)) = part

\* C1: two successive calls of _nonce on one client give strictly increasing
\* nonces, also when both fall within the same millisecond.
C1_NoncesStrictlyIncrease ==
    \A i \in 1..(Len(nonces) - 1) : nonces[i] < nonces[i + 1]

\* C2: a _get_response whose transport answers with a non-empty error list
\* fails with an exchange error whose message contains the joined error
\* strings; it never returns normally.
C2_ErrorEnvelopeRaises ==
    (/\ op.name = "_get_response"
     /\ op.transport.kind = "json"
     /\ error_truthy(op.transport.body))
    => (/\ op.outcome.kind = "raise"
        /\ op.outcome.exc = "RequestException"
        /\ Contains(op.outcome.msg, Join(op.transport.body.error, ", ")))

\* C3: a _get_response whose transport call fails (timeout, connection error,
\* non-JSON body) raises to its caller; it never returns normally.
C3_TransportFailureRaises ==
    (/\ op.name = "_get_response"
     /\ op.transport.kind \in {"timeout", "connection_error", "non_json"})
    => op.outcome.kind = "raise"

\* The three outcomes of _process_response on the envelope in op, the
\* exchange error carrying the message msg.
Classified(msg) ==
    LET response == op.response
        out == op.outcome
    IN  /\ error_truthy(response) =>
            /\ out.kind = "raise"
            /\ out.exc = "RequestException"
            /\ out.msg = msg
        /\ (~error_truthy(response) /\ ~result_truthy(response)) =>
            /\ out.kind = "raise"
            /\ out.exc = "ValueError"
        /\ (~error_truthy(response) /\ result_truthy(response)) =>
            /\ out.kind = "return"
            /\ ~out.isNone
            /\ out.value = response.result

\* C4 as stated: _process_response puts every envelope into exactly one of
\* three outcomes: a non-empty error list raises the exchange error whose
\* message is the error strings joined, whether or not a result is present;
\* no error and no (or an empty) result raises the malformed-response error;
\* otherwise exactly the result mapping is returned.
C4_MessageIsJoinedErrors ==
    op.name = "_process_response" =>
        Classified(Join(op.response.error, ", "))

\* C4 amended: the same three outcomes, the message of the exchange error
\* being "API error: " followed by the error strings joined with ", ".
C4_EnvelopeClassified ==
    op.name = "_process_response" =>
        Classified(<<"API error: ">> \o Join(op.response.error, ", "))

\* C4 witness: an envelope with both an error and a result was unwrapped and
\* the exchange error was raised.
C4_Witness ==
    /\ op.name = "_process_response"
    /\ error_truthy(op.response)
    /\ result_truthy(op.response)
    /\ op.outcome.kind = "raise"
    /\ op.outcome.exc = "RequestException"

(***************************************************************************)
(* Claims about the strategy.                                              *)
(***************************************************************************)

Zero == DecimalOfInt(0)

Range(seq) ==
    {seq[i] : i \in 1..Len(seq)}

\* The arguments of the construction in op that the contract forbids
Offending(o) ==
    {f \in {"base_price", "percentage", "total_volume"} : DLe(o[f], Zero)}
    \cup (IF o.rung_count < 2 THEN {"rung_count"} ELSE {})

\* C5: a construction with base_price <= 0, percentage <= 0, total_volume <= 0
\* or rung_count < 2 fails with a ValueError that names one offending field
\* and carries that field's value, before any facade method is called or any
\* request posted, and leaves no strategy behind.
C5_InvalidArgumentsRejected ==
    (op.name = "GridStrategy" /\ Offending(op) # {}) =>
        /\ op.outcome.kind = "raise"
        /\ op.outcome.exc = "ValueError"
        /\ op.steps = <<"_validate_inputs">>
        /\ op.outcome.field \in Offending(op)
        /\ op.outcome.value = op[op.outcome.field]
        /\ op.calls = <<>>
        /\ op.posts = 0
        /\ nonces = <<>>
        /\ ~strategy.exists

\* C5 witness: a construction whose only fault is rung_count = 1 was rejected
\* with the error naming rung_count and 1.
C5_Witness ==
    /\ op.name = "GridStrategy"
    /\ Offending(op) = {"rung_count"}
    /\ op.rung_count = 1
    /\ op.outcome.kind = "raise"
    /\ op.outcome.field = "rung_count"
    /\ op.outcome.value = 1
    /\ op.posts = 0

UnknownPairError(out) ==
    /\ out.kind = "raise"
    /\ out.exc = "ValueError"
    /\ Contains(out.msg, <<" does not represent a viable asset pair.">>)

\* The names in what the facade handed to the constructor; None has none
ListedPairs(market) ==
    IF pair_list_of(market).type = "list"
    THEN Names(pair_list_of(market).items)
    ELSE {}

\* C6: a construction whose arguments pass validation raises the unknown-pair
\* error exactly when the requested pair is not among the pairs the market
\* facade returned; when it does, no rung exists and no price was fetched.
C6_UnknownPairIffNotListed ==
    (op.name = "GridStrategy" /\ Offending(op) = {}) =>
        /\ UnknownPairError(op.outcome) <=> op.pair \notin ListedPairs(op.market)
        /\ UnknownPairError(op.outcome) =>
              /\ op.left.rungs = <<>>
              /\ "get_ticker_information" \notin Range(op.calls)
              /\ ~strategy.exists

\* A ladder has just been generated, by the constructor or by create_rungs
Generated ==
    /\ op.name \in {"GridStrategy", "create_rungs"}
    /\ op.outcome.kind = "return"
    /\ strategy.exists

\* base_price * (1 + percentage)^i as a number: every sum and product taken
\* with more digits than its operands can fill, so that nothing is rounded
ExactPrice(base_price, percentage, i) ==
    IF i = 0 THEN base_price
    ELSE DMul(base_price,
              PowUint(DAdd(DecimalOfInt(1), percentage, 8 * Prec), i, 8 * Prec),
              8 * Prec)

\* C7: after every successful generation the ladder has rung_count rungs,
\* rung i costs base_price * (1 + percentage)^i, so that rung 0 costs exactly
\* base_price, and every rung holds total_volume / rung_count.
C7_LadderMatchesFormula ==
    Generated =>
        /\ Len(strategy.rungs) = strategy.rung_count
        /\ \A i \in 0..(strategy.rung_count - 1) :
              /\ DEq(strategy.rungs[i + 1].price,
                     ExactPrice(strategy.base_price, strategy.percentage, i))
              /\ strategy.rungs[i + 1].volume =
                    DDivInt(strategy.total_volume, strategy.rung_count)

\* C8: every generated ladder is strictly increasing in price.
C8_PricesStrictlyIncrease ==
    Generated =>
        \A i \in 1..(Len(strategy.rungs) - 1) :
            DLt(strategy.rungs[i].price, strategy.rungs[i + 1].price)

Volumes(rungs) ==
    [i \in 1..Len(rungs) |-> rungs[i].volume]

\* C9: the volumes of every generated ladder sum exactly to total_volume.
C9_VolumesSumToTotal ==
    Generated =>
        DEq(DSum(Volumes(strategy.rungs)), strategy.total_volume)

SameLadder(g, h) ==
    /\ Len(g.rungs) = Len(h.rungs)
    /\ \A i \in 1..Len(g.rungs) :
          /\ g.rungs[i].price = h.rungs[i].price
          /\ g.rungs[i].volume = h.rungs[i].volume

Latest == history.built[Len(history.built)]
Previous == history.built[Len(history.built) - 1]

\* C10: a ladder generated from the same parameters as the generation before
\* it has the same length, prices and volumes, digit for digit; and a ladder
\* that create_rungs generates from the parameters the constructor was given
\* is the constructor's ladder.
C10_RegenerationIsIdentical ==
    (op.name = "create_rungs" /\ op.outcome.kind = "return") =>
        /\ Latest.params = Previous.params => SameLadder(Latest, Previous)
        /\ Latest.params = history.built[1].params =>
              SameLadder(Latest, history.built[1])

\* C10 witness: create_rungs ran twice in a row on the constructor's
\* parameters and the three ladders agree.
C10_Witness ==
    /\ op.name = "create_rungs"
    /\ op.outcome.kind = "return"
    /\ Len(history.built) = 3
    /\ history.built[1].by = "__init__"
    /\ Previous.by = "create_rungs"
    /\ Latest.by = "create_rungs"
    /\ Previous.params = Latest.params
    /\ Latest.params = history.built[1].params
    /\ Len(strategy.rungs) = strategy.rung_count
    /\ strategy.rungs = history.built[1].rungs

\* C11: an update_price that returns normally has asked the facade for the
\* strategy's pair, sets current_ask and current_bid to the first entries of
\* the fetched ticker's a and b, and leaves the rungs, the order lists, the
\* pair and the four parameters as they were.
C11_UpdatePriceFrame ==
    (op.name = "update_price" /\ op.outcome.kind = "return") =>
        /\ op.pair = op.before.pair
        /\ strategy.current_ask = op.ticker_info.a[1]
        /\ strategy.current_bid = op.ticker_info.b[1]
        /\ strategy.rungs = op.before.rungs
        /\ strategy.open_orders = op.before.open_orders
        /\ strategy.closed_orders = op.before.closed_orders
        /\ strategy.pair = op.before.pair
        /\ Params(strategy) = Params(op.before)

\* C11 witness: update_price replaced an ask of 30300.10000 by 30301.50000
\* on a strategy holding its five rungs.
C11_Witness ==
    /\ op.name = "update_price"
    /\ op.outcome.kind = "return"
    /\ op.before.current_ask = Quote1
    /\ strategy.current_ask = Quote2
    /\ strategy.current_bid = Quote1
    /\ Len(strategy.rungs) = 5

(***************************************************************************)
(* Clients of every kind, from their construction on.                      *)
(***************************************************************************)

Secrets == {Absent, "", "dGVzdF9zZWNyZXQ=", "test_secret"}
Keys == {Absent, "", "test_key"}

ApiInit ==
    /\ now = 0
    /\ nonces = <<>>
    /\ op = [name |-> "none"]
    /\ strategy = NoStrategy
    /\ history = NoHistory
    /\ env \in [API_SECRET : Secrets, API_KEY : Keys]
    /\ client = NoClient

\* MarketData(), AccountData() or Trading()
NewClient ==
    /\ ~client.exists
    /\ \E kind \in ClientKinds :
        LET made == BaseAPI_init(kind, env)
        IN  /\ op' = [name |-> "__init__", kind |-> kind,
                      outcome |-> made.outcome, posts |-> 0]
            /\ client' = made.self
    /\ UNCHANGED <<now, nonces, strategy, history, env>>

\* The nonces a call has drawn
\* A client that has just been constructed.  A client keeps nothing from one
\* call to the next, so each behaviour follows a client through one call.
Fresh ==
    /\ client.exists
    /\ op.name = "__init__"

Drawn(made) ==
    IF made.nonce_drawn THEN LogNonce(nonces, nonce(now)) ELSE nonces

Counts == {0, 1, 2, 500, 501}

\* client.get_order_book(pair, count)
CallGetOrderBook ==
    /\ Fresh
    /\ client.kind = "MarketData"
    /\ \E count \in Counts, transport \in Failures \cup {Answer(BookResult), WrappedAnswer(BookResult)} :
        LET made == get_order_book(env, nonce(now), "ETH/XBT", count, transport)
        IN  /\ op' = [name |-> "get_order_book", pair |-> "ETH/XBT", count |-> count,
                      transport |-> transport, outcome |-> made.outcome,
                      requests |-> made.requests, nonce_drawn |-> made.nonce_drawn]
            /\ nonces' = Drawn(made)
    /\ UNCHANGED <<now, strategy, history, env, client>>

Intervals == {0, 1, 2, 5, 15, 30, 60, 240, 1440, 10080, 21600, 43200}

\* client.get_ohlc_data(pair, interval, since)
CallGetOhlcData ==
    /\ Fresh
    /\ client.kind = "MarketData"
    /\ \E interval \in Intervals, transport \in Failures \cup {Answer(OhlcResult), WrappedAnswer(OhlcResult)} :
        LET made == get_ohlc_data(env, nonce(now), "ETH/XBT", interval, 0, transport)
        IN  /\ op' = [name |-> "get_ohlc_data", pair |-> "ETH/XBT",
                      interval |-> interval, since |-> 0,
                      transport |-> transport, outcome |-> made.outcome,
                      requests |-> made.requests, nonce_drawn |-> made.nonce_drawn]
            /\ nonces' = Drawn(made)
    /\ UNCHANGED <<now, strategy, history, env, client>>

OrderTypes == {"limit", "market", "iceberg"}
OrderVolumes == {D(0, 0), D(-1, 0), D(2, 0)}

\* Decimal(2) / Decimal(15) = 0.1333333333333333333333333333
Fifteenth ==
    [neg |-> FALSE, coef |-> [i \in 1..28 |-> IF i = 28 THEN 1 ELSE 3], exp |-> -28]

DisplayVols == {None, Some(D(1, -1)), Some(Fifteenth), Some(D(2, 0))}
Prices == {None, Some(D(0, 0)), Some(D(10012345, -5)), Some(D(1, 25))}
SecondPrices == {None, Some(D(10012345, -5))}

AddOrderArgs ==
    [ordertype : OrderTypes, type : {"buy"}, volume : OrderVolumes, pair : {"ETH/XBT"},
     userref : {None, Some(1)}, cl_ord_id : {None, Some("order-1")},
     displayvol : DisplayVols, price : Prices, price2 : SecondPrices,
     close_price : SecondPrices, close_price2 : SecondPrices]

\* client.add_order(**a)
CallAddOrder ==
    /\ Fresh
    /\ client.kind = "Trading"
    /\ \E a \in AddOrderArgs, transport \in Failures \cup {Answer(AddOrderResult), WrappedAnswer(AddOrderResult)} :
        LET made == add_order(env, nonce(now), a, transport)
        IN  /\ op' = [name |-> "add_order", a |-> a,
                      transport |-> transport, outcome |-> made.outcome,
                      requests |-> made.requests, nonce_drawn |-> made.nonce_drawn]
            /\ nonces' = Drawn(made)
    /\ UNCHANGED <<now, strategy, history, env, client>>

\* client.cancel_order(txid, cl_ord_id)
CallCancelOrder ==
    /\ Fresh
    /\ client.kind = "Trading"
    /\ \E txid \in {None, Some("OU22CG-KLAF2-FWUDD7")}, cl_ord_id \in {None, Some("order-1")},
          transport \in Failures \cup {Answer(CancelResult), WrappedAnswer(CancelResult)} :
        LET made == cancel_order(env, nonce(now), txid, cl_ord_id, transport)
        IN  /\ op' = [name |-> "cancel_order", txid |-> txid, cl_ord_id |-> cl_ord_id,
                      transport |-> transport, outcome |-> made.outcome,
                      requests |-> made.requests, nonce_drawn |-> made.nonce_drawn]
            /\ nonces' = Drawn(made)
    /\ UNCHANGED <<now, strategy, history, env, client>>

\* client.get_account_balance()
CallGetAccountBalance ==
    /\ Fresh
    /\ client.kind = "AccountData"
    /\ \E transport \in Failures \cup {Answer(r) : r \in BalanceResults}
                                 \cup {WrappedAnswer(r) : r \in BalanceResults} :
        LET made == get_account_balance(env, nonce(now), transport)
        IN  /\ op' = [name |-> "get_account_balance",
                      transport |-> transport, outcome |-> made.outcome,
                      requests |-> made.requests, nonce_drawn |-> made.nonce_drawn]
            /\ nonces' = Drawn(made)
    /\ UNCHANGED <<now, strategy, history, env, client>>

\* The raw texts of the fields of a payload
Raws == {"none", "None", "0.5", "1:1"}

\* OrderDescription(**payload) and Order(**payload).  The records are built
\* from payloads alone, whatever client fetched them.
BuildOrderDescription ==
    /\ op.name = "none"
    /\ \E payload \in [DOMAIN OrderDescriptionFields -> Raws] :
        op' = [name |-> "OrderDescription", payload |-> payload,
               outcome |-> OrderDescription(payload)]
    /\ UNCHANGED <<now, nonces, strategy, history, env, client>>

BuildOrder ==
    /\ op.name = "none"
    /\ \E payload \in [DOMAIN OrderFields -> Raws] :
        op' = [name |-> "Order", payload |-> payload, outcome |-> Order(payload)]
    /\ UNCHANGED <<now, nonces, strategy, history, env, client>>

\* The statuses of the second order of an answer: a member of OrderStatusType
\* and a value outside it
Statuses == {"closed", "partial"}

\* What the exchange answers to OpenOrders: the orders under "open"
OpenOrdersResult(status) ==
    << [k |-> "open", v |-> Map(OrdersById(status))] >>

\* client.get_open_orders(trades, userref, cl_ord_id)
CallGetOpenOrders ==
    /\ Fresh
    /\ client.kind = "AccountData"
    /\ \E trades \in {None, Some(TRUE)}, userref \in {None, Some(1)},
          cl_ord_id \in {None, Some("order-1")},
          transport \in Failures
              \cup {Answer(OpenOrdersResult(st)) : st \in Statuses}
              \cup {WrappedAnswer(OpenOrdersResult(st)) : st \in Statuses} :
        LET made == get_open_orders(env, nonce(now), trades, userref, cl_ord_id, transport)
        IN  /\ op' = [name |-> "get_open_orders", trades |-> trades,
                      userref |-> userref, cl_ord_id |-> cl_ord_id,
                      transport |-> transport, outcome |-> made.outcome,
                      requests |-> made.requests, nonce_drawn |-> made.nonce_drawn]
            /\ nonces' = Drawn(made)
    /\ UNCHANGED <<now, strategy, history, env, client>>

\* client.query_orders_info(txid, trades)
CallQueryOrdersInfo ==
    /\ Fresh
    /\ client.kind = "AccountData"
    /\ \E trades \in {None, Some(TRUE)},
          transport \in Failures
              \cup {Answer(OrdersById(st)) : st \in Statuses}
              \cup {WrappedAnswer(OrdersById(st)) : st \in Statuses} :
        LET made == query_orders_info(env, nonce(now), "OB45M3-TXID2,OA12K9-TXID1",
                                      trades, transport)
        IN  /\ op' = [name |-> "query_orders_info", trades |-> trades,
                      transport |-> transport, outcome |-> made.outcome,
                      requests |-> made.requests, nonce_drawn |-> made.nonce_drawn]
            /\ nonces' = Drawn(made)
    /\ UNCHANGED <<now, strategy, history, env, client>>

\* The answers a call can meet: a failure, the result as the exchange sends
\* it, and the same one level down under a key "result"
Answers(results) ==
    Failures \cup {Answer(r) : r \in results} \cup {WrappedAnswer(r) : r \in results}

\* Answers to Time: complete, and without rfc1123
TimeResults ==
    {<< [k |-> "unixtime", v |-> Number(1616336594)],
        [k |-> "rfc1123", v |-> Text("Sun, 21 Mar 21 14:23:14 +0000")] >>,
     << [k |-> "unixtime", v |-> Number(1616336594)] >>}

\* client.get_server_time()
CallGetServerTime ==
    /\ Fresh
    /\ client.kind = "MarketData"
    /\ \E transport \in Answers(TimeResults) :
        LET made == get_server_time(env, nonce(now), transport)
        IN  /\ op' = [name |-> "get_server_time",
                      transport |-> transport, outcome |-> made.outcome,
                      requests |-> made.requests, nonce_drawn |-> made.nonce_drawn]
            /\ nonces' = Drawn(made)
    /\ UNCHANGED <<now, strategy, history, env, client>>

\* Answers to SystemStatus: a member of SystemStatusEnum and a value outside it
StatusResults ==
    {<< [k |-> "status", v |-> Text(status)],
        [k |-> "timestamp", v |-> Text("2021-03-21T15:33:02Z")] >> :
        status \in {"online", "degraded"}}

\* client.get_system_status()
CallGetSystemStatus ==
    /\ Fresh
    /\ client.kind = "MarketData"
    /\ \E transport \in Answers(StatusResults) :
        LET made == get_system_status(env, nonce(now), transport)
        IN  /\ op' = [name |-> "get_system_status",
                      transport |-> transport, outcome |-> made.outcome,
                      requests |-> made.requests, nonce_drawn |-> made.nonce_drawn]
            /\ nonces' = Drawn(made)
    /\ UNCHANGED <<now, strategy, history, env, client>>

\* Answers to Assets: two assets, the second accepted by AssetInfo or not
AssetResults ==
    {<< [k |-> "XXBT", v |-> PairRecord], [k |-> "XETH", v |-> second] >> :
        second \in {PairRecord, BadRecord}}

\* client.get_asset_info(asset, aclass)
CallGetAssetInfo ==
    /\ Fresh
    /\ client.kind = "MarketData"
    /\ \E asset \in {None, Some("XXBT"), ListArg(<<"XXBT", "XETH">>)},
          aclass \in {None, Some("currency")},
          transport \in Answers(AssetResults) :
        LET made == get_asset_info(env, nonce(now), asset, aclass, transport)
        IN  /\ op' = [name |-> "get_asset_info", asset |-> asset, aclass |-> aclass,
                      transport |-> transport, outcome |-> made.outcome,
                      requests |-> made.requests, nonce_drawn |-> made.nonce_drawn]
            /\ nonces' = Drawn(made)
    /\ UNCHANGED <<now, strategy, history, env, client>>

TradesResult ==
    << [k |-> "ETH/XBT", v |-> Payload("trades")],
       [k |-> "last", v |-> Text("1616336594")] >>

TradeCounts == {0, 1, 2, 50, 1000, 1001}

\* client.get_recent_trades(pair, since, count)
CallGetRecentTrades ==
    /\ Fresh
    /\ client.kind = "MarketData"
    /\ \E count \in TradeCounts, transport \in Answers({TradesResult}) :
        LET made == get_recent_trades(env, nonce(now), "ETH/XBT", 0, count, transport)
        IN  /\ op' = [name |-> "get_recent_trades", pair |-> "ETH/XBT", count |-> count,
                      transport |-> transport, outcome |-> made.outcome,
                      requests |-> made.requests, nonce_drawn |-> made.nonce_drawn]
            /\ nonces' = Drawn(made)
    /\ UNCHANGED <<now, strategy, history, env, client>>

SpreadResult ==
    << [k |-> "ETH/XBT", v |-> Payload("spreads")], [k |-> "last", v |-> Number(1)] >>

\* client.get_recent_spreads(pair, since)
CallGetRecentSpreads ==
    /\ Fresh
    /\ client.kind = "MarketData"
    /\ \E transport \in Answers({SpreadResult}) :
        LET made == get_recent_spreads(env, nonce(now), "ETH/XBT", 0, transport)
        IN  /\ op' = [name |-> "get_recent_spreads", pair |-> "ETH/XBT",
                      transport |-> transport, outcome |-> made.outcome,
                      requests |-> made.requests, nonce_drawn |-> made.nonce_drawn]
            /\ nonces' = Drawn(made)
    /\ UNCHANGED <<now, strategy, history, env, client>>

\* Answers to BalanceEx: two assets, the second accepted by
\* ExtendedAssetBalance or not
ExtendedBalanceResults ==
    {<< [k |-> "ZUSD", v |-> PairRecord], [k |-> "XXBT", v |-> second] >> :
        second \in {PairRecord, BadRecord}}

\* client.get_extended_account_balance()
CallGetExtendedAccountBalance ==
    /\ Fresh
    /\ client.kind = "AccountData"
    /\ \E transport \in Answers(ExtendedBalanceResults) :
        LET made == get_extended_account_balance(env, nonce(now), transport)
        IN  /\ op' = [name |-> "get_extended_account_balance",
                      transport |-> transport, outcome |-> made.outcome,
                      requests |-> made.requests, nonce_drawn |-> made.nonce_drawn]
            /\ nonces' = Drawn(made)
    /\ UNCHANGED <<now, strategy, history, env, client>>

\* Answers to TradeBalance: two of the fields, the second readable or not
TradeBalanceResults ==
    {<< [k |-> "eb", v |-> Text("171288.6158")], [k |-> "tb", v |-> Text(tb)] >> :
        tb \in {"0.5", "abc"}}

\* client.get_trade_balance(asset)
CallGetTradeBalance ==
    /\ Fresh
    /\ client.kind = "AccountData"
    /\ \E asset \in {None, Some("ZUSD")}, transport \in Answers(TradeBalanceResults) :
        LET made == get_trade_balance(env, nonce(now), asset, transport)
        IN  /\ op' = [name |-> "get_trade_balance", asset |-> asset,
                      transport |-> transport, outcome |-> made.outcome,
                      requests |-> made.requests, nonce_drawn |-> made.nonce_drawn]
            /\ nonces' = Drawn(made)
    /\ UNCHANGED <<now, strategy, history, env, client>>

\* What the exchange answers to ClosedOrders: the orders under "closed"
ClosedOrdersResult(status) ==
    << [k |-> "closed", v |-> Map(OrdersById(status))], [k |-> "count", v |-> Number(2)] >>

\* client.get_closed_orders(trades, ..., start, ..., closetime, ...)
CallGetClosedOrders ==
    /\ Fresh
    /\ client.kind = "AccountData"
    /\ \E trades \in {None, Some(TRUE)}, start \in {None, Some(1)},
          closetime \in {None, Some("close")},
          transport \in Answers({ClosedOrdersResult(st) : st \in Statuses}) :
        LET a == [trades |-> trades, userref |-> None, cl_ord_id |-> None,
                  start |-> start, end |-> None, ofs |-> None,
                  closetime |-> closetime, consolidate_taker |-> None]
            made == get_closed_orders(env, nonce(now), a, transport)
        IN  /\ op' = [name |-> "get_closed_orders", a |-> a,
                      transport |-> transport, outcome |-> made.outcome,
                      requests |-> made.requests, nonce_drawn |-> made.nonce_drawn]
            /\ nonces' = Drawn(made)
    /\ UNCHANGED <<now, strategy, history, env, client>>

\* The types of the second trade of an answer: a member of OrderSide and a
\* value outside it
Sides == {"buy", "short"}

\* What the exchange answers to TradesHistory: the trades under "trades"
TradesHistoryResult(type) ==
    << [k |-> "trades", v |-> Map(TradesById(type))], [k |-> "count", v |-> Number(2)] >>

\* client.get_trades_history(type, trades, start, ...)
CallGetTradesHistory ==
    /\ Fresh
    /\ client.kind = "AccountData"
    /\ \E type \in {None, Some("all")}, trades \in {None, Some(TRUE)},
          start \in {None, Some(1)},
          transport \in Answers({TradesHistoryResult(side) : side \in Sides}) :
        LET a == [type |-> type, trades |-> trades, start |-> start, end |-> None,
                  ofs |-> None, consolidate_taker |-> None, ledgers |-> None]
            made == get_trades_history(env, nonce(now), a, transport)
        IN  /\ op' = [name |-> "get_trades_history", a |-> a,
                      transport |-> transport, outcome |-> made.outcome,
                      requests |-> made.requests, nonce_drawn |-> made.nonce_drawn]
            /\ nonces' = Drawn(made)
    /\ UNCHANGED <<now, strategy, history, env, client>>

\* client.querey_trades_info(txid, trades)
CallQuereyTradesInfo ==
    /\ Fresh
    /\ client.kind = "AccountData"
    /\ \E trades \in {None, Some(TRUE)},
          transport \in Answers({TradesById(side) : side \in Sides}) :
        LET made == querey_trades_info(env, nonce(now),
                                       "THVRQM-33VKH-UCI7BS,TCCCTY-WE2O6-P3NB37",
                                       trades, transport)
        IN  /\ op' = [name |-> "querey_trades_info", trades |-> trades,
                      transport |-> transport, outcome |-> made.outcome,
                      requests |-> made.requests, nonce_drawn |-> made.nonce_drawn]
            /\ nonces' = Drawn(made)
    /\ UNCHANGED <<now, strategy, history, env, client>>

ApiNext ==
    \/ CallGetOpenOrders
    \/ CallQueryOrdersInfo
    \/ BuildOrderDescription
    \/ BuildOrder
    \/ NewClient
    \/ CallGetOrderBook
    \/ CallGetOhlcData
    \/ CallAddOrder
    \/ CallCancelOrder
    \/ CallGetAccountBalance
    \/ CallGetServerTime
    \/ CallGetSystemStatus
    \/ CallGetAssetInfo
    \/ CallGetRecentTrades
    \/ CallGetRecentSpreads
    \/ CallGetExtendedAccountBalance
    \/ CallGetTradeBalance
    \/ CallGetClosedOrders
    \/ CallGetTradesHistory
    \/ CallQuereyTradesInfo

ApiSpec == ApiInit /\ [][ApiNext]_vars

(***************************************************************************)
(* Header generation on its own, as test_generate_headers calls it, while  *)
(* time passes.                                                            *)
(***************************************************************************)

MaxSigned == 2

\* The URIs and the post_data of the invocations
SignedURIs == {"/test/endpoint", "/0/private/Balance"}
SignedBodies ==
    {<< [k |-> "nonce", v |-> n], [k |-> "param1", v |-> p] >> :
        n \in {123456789, 1}, p \in {"value1", "value2"}}

\* The invocations before the latest, the last MaxSigned of them
Earlier ==
    IF op.name # "_generate_headers" THEN <<>>
    ELSE LET e == [at |-> op.at, URI |-> op.URI, post_data |-> op.post_data,
                   headers |-> op.headers]
         IN  IF Len(op.earlier) < MaxSigned THEN Append(op.earlier, e)
             ELSE Append(Tail(op.earlier), e)

\* base_api._generate_headers(URI, post_data)
CallGenerateHeaders ==
    /\ \E URI \in SignedURIs, post_data \in SignedBodies :
        op' = [name |-> "_generate_headers", at |-> now, URI |-> URI,
               post_data |-> post_data,
               headers |-> generate_headers(env, URI, post_data),
               earlier |-> Earlier]
    /\ UNCHANGED <<now, nonces, strategy, history, env, client>>

SignNext ==
    \/ Tick
    \/ CallGenerateHeaders

SignSpec == Init /\ [][SignNext]_vars

(***************************************************************************)
(* Claims about the construction of clients and their requests.            *)
(***************************************************************************)

\* C12: constructing a client of any kind while API_SECRET or API_KEY is
\* missing raises a ValueError that names a missing variable, posts nothing
\* and draws no nonce; and a client exists only when both are present.
C12_MissingCredentialsRejected ==
    /\ (op.name = "__init__" /\ (Missing(env.API_SECRET) \/ Missing(env.API_KEY))) =>
          /\ op.outcome.kind = "raise"
          /\ op.outcome.exc = "ValueError"
          /\ \E name \in {"API_SECRET", "API_KEY"} :
                /\ Missing(env[name])
                /\ Contains(op.outcome.msg, <<name, " is missing!">>)
          /\ op.posts = 0
          /\ nonces = <<>>
    /\ client.exists => (~Missing(env.API_SECRET) /\ ~Missing(env.API_KEY))

\* C12 witness: a Trading client was refused because only API_KEY is missing.
C12_Witness ==
    /\ op.name = "__init__"
    /\ op.kind = "Trading"
    /\ ~Missing(env.API_SECRET)
    /\ env.API_KEY = Absent
    /\ op.outcome.kind = "raise"
    /\ ~client.exists

\* The call in op was refused by argument validation: ValueError to the
\* caller, nothing posted, no nonce drawn
RefusedBeforeIO ==
    /\ op.outcome.kind = "raise"
    /\ op.outcome.exc = "ValueError"
    /\ op.requests = <<>>
    /\ ~op.nonce_drawn

\* The secret can be decoded, so that a request can be signed and posted
CanSign ==
    env.API_SECRET \in Base64Secrets

\* C13: get_order_book is refused before any network call exactly when count
\* is outside 1..500; a count within 1..500 is posted, and no request with
\* another count is.
C13_OrderBookCountChecked ==
    op.name = "get_order_book" =>
        /\ RefusedBeforeIO <=> op.count \notin 1..500
        /\ (op.count \in 1..500 /\ CanSign) => Len(op.requests) = 1
        /\ op.requests # <<>> => op.count \in 1..500

\* The value of a field of a posted request
Field(request, key) ==
    Get(request.data, key)

\* C14: get_ohlc_data is refused before any network call exactly when the
\* interval is not one of 1, 5, 15, 30, 60, 240, 1440, 10080, 21600, and
\* every OHLC request posted carries one of these intervals.
C14_OhlcIntervalChecked ==
    op.name = "get_ohlc_data" =>
        /\ RefusedBeforeIO <=>
              op.interval \notin {1, 5, 15, 30, 60, 240, 1440, 10080, 21600}
        /\ \A i \in 1..Len(op.requests) :
              Field(op.requests[i], "interval")
                  \in {1, 5, 15, 30, 60, 240, 1440, 10080, 21600}

\* C14 witness: an interval of 2 was refused, nothing posted.
C14_Witness ==
    /\ op.name = "get_ohlc_data"
    /\ op.interval = 2
    /\ op.outcome.kind = "raise"
    /\ op.requests = <<>>

\* Whether a request has a field
Has(request, key) ==
    HasKey(request.data, key)

\* The four conditions on the arguments of add_order
BadOrderArgs(a) ==
    \/ a.userref.some /\ a.cl_ord_id.some
    \/ DLe(a.volume, DecimalOfInt(0))
    \/ a.ordertype = "limit" /\ ~a.price.some
    \/ a.ordertype = "market" /\ a.price.some

\* The same four conditions on a posted AddOrder request
BadOrderRequest(request) ==
    \/ Has(request, "userref") /\ Has(request, "cl_ord_id")
    \/ DLe(Field(request, "volume").of, DecimalOfInt(0))
    \/ Field(request, "ordertype") = "limit" /\ ~Has(request, "price")
    \/ Field(request, "ordertype") = "market" /\ Has(request, "price")

\* C15: add_order with both userref and cl_ord_id, or volume <= 0, or a
\* limit order without price, or a market order with a price, raises
\* ValueError before a nonce is drawn or anything is posted; and no posted
\* AddOrder request has both ids, a volume <= 0, ordertype limit without a
\* price, or ordertype market with a price.
C15_AddOrderValidated ==
    op.name = "add_order" =>
        /\ BadOrderArgs(op.a) => RefusedBeforeIO
        /\ \A i \in 1..Len(op.requests) : ~BadOrderRequest(op.requests[i])

\* The part of C15 about the arguments alone
C15_BadArgumentsRefused ==
    op.name = "add_order" /\ BadOrderArgs(op.a) => RefusedBeforeIO

\* 15 * displayvol >= volume, computed exactly
AtLeastFifteenth(displayvol, volume) ==
    DLe(volume, DMul(displayvol, DecimalOfInt(15), 3 * Prec))

\* C16: every posted iceberg AddOrder request carries a displayvol that is at
\* least 1/15 of its volume, and an iceberg add_order whose displayvol is
\* not is refused with ValueError before anything is posted.
C16_IcebergDisplayVolChecked ==
    op.name = "add_order" /\ op.a.ordertype = "iceberg" =>
        /\ \A i \in 1..Len(op.requests) :
              /\ Has(op.requests[i], "displayvol")
              /\ AtLeastFifteenth(Field(op.requests[i], "displayvol"),
                                  Field(op.requests[i], "volume").of)
        /\ ~(op.a.displayvol.some /\ AtLeastFifteenth(op.a.displayvol.v, op.a.volume))
              => RefusedBeforeIO

\* The part of C16 the comparison in Decimal arithmetic does ensure: a posted
\* iceberg request that carries a displayvol has one not below the rounded
\* quotient volume / Decimal(15).
C16_DisplayVolNotBelowQuotient ==
    op.name = "add_order" /\ op.a.ordertype = "iceberg" =>
        \A i \in 1..Len(op.requests) :
            Has(op.requests[i], "displayvol") =>
                ~DLt(Field(op.requests[i], "displayvol"), DDivInt(op.a.volume, 15))

\* The precision step 0.0001 of _enforce_precision
Step == D(1, -4)

\* sent is supplied quantized downward to the step, for supplied >= 0
QuantizedDown(sent, supplied) ==
    /\ sent.exp >= -4 \/ IsZeroDigits(LowDigits(sent.coef, -4 - sent.exp))
    /\ DLe(sent, supplied)
    /\ DLt(supplied, DAdd(sent, Step, 3 * Prec))

\* The argument of add_order a field of the request is taken from
Supplied(a, key) ==
    IF key = "price" THEN a.price.v
    ELSE IF key = "price2" THEN a.price2.v
    ELSE IF key = "close[price]" THEN a.close_price.v
    ELSE a.close_price2.v

\* C17: every price, price2, close[price] and close[price2] of a posted
\* AddOrder request is the supplied value quantized downward to 0.0001: a
\* multiple of 0.0001, not above the supplied value, less than 0.0001 below.
C17_PricesQuantizedDown ==
    op.name = "add_order" =>
        \A i \in 1..Len(op.requests) :
            \A key \in {"price", "price2", "close[price]", "close[price2]"} :
                Has(op.requests[i], key) =>
                    QuantizedDown(Field(op.requests[i], key), Supplied(op.a, key))

\* The part of C17 that holds: the field price of a posted request
C17_PriceQuantizedDown ==
    op.name = "add_order" =>
        \A i \in 1..Len(op.requests) :
            Has(op.requests[i], "price") =>
                QuantizedDown(Field(op.requests[i], "price"), op.a.price.v)

\* C18: cancel_order with neither txid nor cl_ord_id raises ValueError before
\* anything is posted; with at least one of them, and the exchange answering
\* without error with a result holding a count, it returns that count.
C18_CancelOrderReturnsCount ==
    op.name = "cancel_order" =>
        /\ ~op.txid.some /\ ~op.cl_ord_id.some => RefusedBeforeIO
        /\ /\ op.txid.some \/ op.cl_ord_id.some
           /\ CanSign
           /\ op.transport = Answer(CancelResult)
           => /\ op.outcome.kind = "return"
              /\ ~op.outcome.isNone
              /\ op.outcome.value = 1

\* The part of C18 that holds: the check of the arguments
C18_NeitherIdRefused ==
    op.name = "cancel_order" =>
        (RefusedBeforeIO <=> ~op.txid.some /\ ~op.cl_ord_id.some)

\* The operation that ran last was a call of a client
IsCall ==
    op.name \notin {"none", "__init__", "Order", "OrderDescription"}

\* C19: a request posted under /0/public/ carries neither API-Key nor
\* API-Sign, and a request posted under /0/private/ carries both.
C19_OnlyPrivateRequestsSigned ==
    IsCall =>
        \A i \in 1..Len(op.requests) :
            /\ op.requests[i].uri[1] = "/0/public/"
                  => /\ ~HasKey(op.requests[i].headers, "API-Key")
                     /\ ~HasKey(op.requests[i].headers, "API-Sign")
            /\ op.requests[i].uri[1] = "/0/private/"
                  => /\ HasKey(op.requests[i].headers, "API-Key")
                     /\ HasKey(op.requests[i].headers, "API-Sign")

\* The part of C19 that holds: private requests are signed
C19_PrivateRequestsSigned ==
    IsCall =>
        \A i \in 1..Len(op.requests) :
            op.requests[i].uri[1] = "/0/private/"
                => /\ HasKey(op.requests[i].headers, "API-Key")
                   /\ HasKey(op.requests[i].headers, "API-Sign")

\* A record was built from a payload
Built ==
    /\ op.name \in {"Order", "OrderDescription"}
    /\ op.outcome.kind = "return"

\* C20: in every Order and OrderDescription built, a field whose raw value
\* is "none" or "None" is absent.
C20_BothSpellingsMapped ==
    Built =>
        \A f \in DOMAIN op.payload :
            op.payload[f] \in {"none", "None"} => ~op.outcome.value[f].some

\* The part of C20 that holds: each class maps the spelling it tests for
C20_OwnSpellingMapped ==
    Built =>
        \A f \in DOMAIN op.payload :
            op.payload[f] = (IF op.name = "Order" THEN "None" ELSE "none")
                => ~op.outcome.value[f].some

(***************************************************************************)
(* Claims about decoding, serialisation and signing.                       *)
(***************************************************************************)

\* The transaction ids of a list of orders, in order
TxIds(orders) ==
    [i \in 1..Len(orders) |-> orders[i].txid]

\* The keys of a mapping, in order
Keys_of(mapping) ==
    [i \in 1..Len(mapping) |-> mapping[i].k]

\* C21: when the exchange answers get_open_orders, get_closed_orders,
\* query_orders_info, get_trades_history or querey_trades_info without error
\* with a result of valid records keyed by id, the operation returns one
\* record per key, in key order, its txid being the key.
C21_OneRecordPerKey ==
    /\ op.name = "get_open_orders" /\ CanSign
          /\ op.transport = Answer(OpenOrdersResult("closed"))
       => /\ ~op.outcome.isNone
          /\ TxIds(op.outcome.value) = Keys_of(OrdersById("closed"))
    /\ op.name = "get_closed_orders" /\ CanSign
          /\ op.transport = Answer(ClosedOrdersResult("closed"))
       => /\ ~op.outcome.isNone
          /\ TxIds(op.outcome.value) = Keys_of(OrdersById("closed"))
    /\ op.name = "query_orders_info" /\ CanSign
          /\ op.transport = Answer(OrdersById("closed"))
       => /\ ~op.outcome.isNone
          /\ TxIds(op.outcome.value) = Keys_of(OrdersById("closed"))
    /\ op.name = "get_trades_history" /\ CanSign
          /\ op.transport = Answer(TradesHistoryResult("buy"))
       => /\ ~op.outcome.isNone
          /\ TxIds(op.outcome.value) = Keys_of(TradesById("buy"))
    /\ op.name = "querey_trades_info" /\ CanSign
          /\ op.transport = Answer(TradesById("buy"))
       => /\ ~op.outcome.isNone
          /\ TxIds(op.outcome.value) = Keys_of(TradesById("buy"))

\* The part of C21 that holds: whenever a list is returned, it pairs each
\* key of the decoded mapping with its payload, in key order.
C21_ReturnedListFollowsKeys ==
    /\ op.name \in {"get_open_orders", "get_closed_orders", "query_orders_info"}
          /\ ~op.outcome.isNone
       => \E st \in Statuses : TxIds(op.outcome.value) = Keys_of(OrdersById(st))
    /\ op.name \in {"get_trades_history", "querey_trades_info"}
          /\ ~op.outcome.isNone
       => \E side \in Sides : TxIds(op.outcome.value) = Keys_of(TradesById(side))

\* An answer one of whose orders has a status outside OrderStatusType, or one
\* of whose trades has a type outside OrderSide
BadStatusAnswered ==
    \/ op.name = "get_open_orders"
          /\ op.transport \in {Answer(OpenOrdersResult("partial")),
                               WrappedAnswer(OpenOrdersResult("partial"))}
    \/ op.name = "get_closed_orders"
          /\ op.transport \in {Answer(ClosedOrdersResult("partial")),
                               WrappedAnswer(ClosedOrdersResult("partial"))}
    \/ op.name = "query_orders_info"
          /\ op.transport \in {Answer(OrdersById("partial")),
                               WrappedAnswer(OrdersById("partial"))}
    \/ op.name = "get_trades_history"
          /\ op.transport \in {Answer(TradesHistoryResult("short")),
                               WrappedAnswer(TradesHistoryResult("short"))}
    \/ op.name = "querey_trades_info"
          /\ op.transport \in {Answer(TradesById("short")),
                               WrappedAnswer(TradesById("short"))}

\* C23: when an order of the answer has a status outside OrderStatusType, or
\* a trade a type outside OrderSide, the operation raises to its caller; it
\* neither returns a record holding that value nor returns normally without
\* a record.
C23_InvalidEnumRaised ==
    BadStatusAnswered /\ CanSign => op.outcome.kind = "raise"

\* The part of C23 that holds: no record holding a status outside
\* OrderStatusType or a type outside OrderSide is ever returned.
C23_NoRecordWithInvalidEnum ==
    /\ op.name \in {"get_open_orders", "get_closed_orders", "query_orders_info"}
          /\ ~op.outcome.isNone
       => \A i \in 1..Len(op.outcome.value) :
              op.outcome.value[i].status \in OrderStatusType
    /\ op.name \in {"get_trades_history", "querey_trades_info"}
          /\ ~op.outcome.isNone
       => \A i \in 1..Len(op.outcome.value) :
              op.outcome.value[i].type \in OrderSide

\* The fields of the operations' post_data literals, in declared order
Declared(name) ==
    CASE name = "add_order" ->
           <<"nonce", "ordertype", "type", "volume", "pair", "userref", "cl_ord_id",
             "displayvol", "price", "price2", "close[price]", "close[price2]">>
      [] name = "cancel_order" -> <<"nonce", "txid", "cl_ord_id">>
      [] name = "get_open_orders" -> <<"nonce", "trades", "userref", "cl_ord_id">>
      [] name = "get_closed_orders" ->
           <<"nonce", "trades", "userref", "cl_ord_id", "start", "end", "ofs",
             "closetime", "consolidate_taker">>
      [] name = "query_orders_info" -> <<"nonce", "txid", "trades">>
      [] name = "get_trades_history" ->
           <<"nonce", "type", "trades", "start", "end", "ofs", "consolidate_taker",
             "ledgers">>
      [] name = "querey_trades_info" -> <<"nonce", "txid", "trades">>
      [] name = "get_asset_info" -> <<"nonce", "asset", "aclass">>
      [] name = "get_trade_balance" -> <<"nonce", "asset">>
      [] name = "get_order_book" -> <<"nonce", "pair", "count">>
      [] name = "get_recent_trades" -> <<"nonce", "pair", "since", "count">>
      [] name = "get_recent_spreads" -> <<"nonce", "pair", "since">>
      [] name = "get_ohlc_data" -> <<"nonce", "pair", "interval", "since">>
      [] OTHER -> <<"nonce">>

\* The optional fields whose argument was None in the call that ran last
AbsentFields ==
    CASE op.name = "add_order" ->
           {f \in {"userref", "cl_ord_id", "displayvol", "price", "price2"} : ~op.a[f].some}
           \cup (IF op.a.close_price.some THEN {} ELSE {"close[price]"})
           \cup (IF op.a.close_price2.some THEN {} ELSE {"close[price2]"})
      [] op.name = "cancel_order" ->
           (IF op.txid.some THEN {} ELSE {"txid"})
           \cup (IF op.cl_ord_id.some THEN {} ELSE {"cl_ord_id"})
      [] op.name = "get_open_orders" ->
           {f \in {"trades", "userref", "cl_ord_id"} : ~op[f].some}
      [] op.name \in {"get_closed_orders", "get_trades_history"} ->
           {f \in DOMAIN op.a : ~op.a[f].some}
      [] op.name \in {"query_orders_info", "querey_trades_info"} ->
           (IF op.trades.some THEN {} ELSE {"trades"})
      [] op.name = "get_asset_info" ->
           (IF op.asset.some THEN {} ELSE {"asset"})
           \cup (IF op.aclass.some THEN {} ELSE {"aclass"})
      [] op.name = "get_trade_balance" ->
           (IF op.asset.some THEN {} ELSE {"asset"})
      [] OTHER -> {}

Position(seq, x) ==
    CHOOSE i \in 1..Len(seq) : seq[i] = x

\* The fields of a request are fields of the literal, in its order, nonce first
InDeclaredOrder(request, declared) ==
    LET keys == Keys_of(request.data)
    IN  /\ Len(keys) > 0 /\ keys[1] = "nonce"
        /\ \A i \in 1..Len(keys) : \E j \in 1..Len(declared) : declared[j] = keys[i]
        /\ \A i, j \in 1..Len(keys) :
              i < j => Position(declared, keys[i]) < Position(declared, keys[j])

Serialised(names) ==
    op.name \in names =>
        \A i \in 1..Len(op.requests) :
            /\ \A f \in AbsentFields : ~Has(op.requests[i], f)
            /\ InDeclaredOrder(op.requests[i], Declared(op.name))

\* The operations that filter None out of their post_data literal, or have
\* no optional argument; cancel_order, get_asset_info and get_trade_balance
\* post the literal as it is
Filtering ==
    {"add_order", "get_open_orders", "get_closed_orders", "query_orders_info",
     "get_trades_history", "querey_trades_info", "get_order_book", "get_ohlc_data",
     "get_recent_trades", "get_recent_spreads", "get_server_time",
     "get_system_status", "get_account_balance", "get_extended_account_balance"}

\* C22: the field mapping of every request signed and posted by a facade
\* operation holds no optional field whose argument was None, and its fields
\* are in declared order, nonce first.
C22_AbsentFieldsDropped ==
    Serialised(Filtering \cup {"cancel_order", "get_asset_info", "get_trade_balance"})

\* The part of C22 that holds: the operations that filter their post_data
C22_FilteredOperations ==
    Serialised(Filtering)

\* C25: a client exists only if its secret can be decoded from base64, so
\* that no client's signing step can fail on the secret.
C25_UndecodableSecretRejected ==
    client.exists => env.API_SECRET \in Base64Secrets

\* The part of C25 about what follows: a client whose secret cannot be
\* decoded never posts; its calls return None.
C25_UndecodableSecretNeverPosts ==
    IsCall /\ op.name # "_generate_headers" /\ env.API_SECRET \notin Base64Secrets
        => op.requests = <<>>

(***************************************************************************)
(* Claims about the life of a strategy.                                    *)
(***************************************************************************)

ConstructionSteps ==
    <<"_validate_inputs", "_validate_pair", "update_price", "rungs">>

\* Which of the three checks the arguments of the last construction fail
InvalidParameters ==
    validate_inputs([base_price |-> op.base_price, percentage |-> op.percentage,
                     total_volume |-> op.total_volume,
                     rung_count |-> op.rung_count]).kind = "raise"
UnlistedPair ==
    validate_pair(op.pair, pair_list_of(op.market)).kind = "raise"
NoTicker ==
    ticker_info_of(op.market).type # "TickerInfo"

\* C26: a construction runs parameter validation, pair validation, price
\* sync and ladder build in this order and stops at the first that fails:
\* it then raises, has made no later call, has built no rung, and leaves no
\* strategy; a strategy exists only with its pair validated and price synced.
C26_ConstructionInOrder ==
    /\ op.name = "GridStrategy" =>
          /\ op.steps = SubSeq(ConstructionSteps, 1,
                               IF InvalidParameters THEN 1
                               ELSE IF UnlistedPair THEN 2
                               ELSE IF NoTicker THEN 3 ELSE 4)
          /\ op.calls = SubSeq(<<"get_tradable_asset_pairs", "get_ticker_information">>, 1,
                               IF InvalidParameters THEN 0
                               ELSE IF UnlistedPair THEN 1 ELSE 2)
          /\ InvalidParameters \/ UnlistedPair \/ NoTicker
                => /\ op.outcome.kind = "raise"
                   /\ op.left.rungs = <<>>
                   /\ ~strategy.exists
          /\ strategy.exists => op.steps = ConstructionSteps
    /\ strategy.exists =>
          /\ strategy.pair # Unset
          /\ strategy.current_ask # Unset
          /\ strategy.current_bid # Unset

\* C26 witness: a construction whose parameters and pair are valid and whose
\* price sync fails: three steps taken, no rung built, no strategy.
C26_Witness ==
    /\ op.name = "GridStrategy"
    /\ ~InvalidParameters /\ ~UnlistedPair /\ NoTicker
    /\ op.steps = <<"_validate_inputs", "_validate_pair", "update_price">>
    /\ op.outcome.kind = "raise"
    /\ op.left.rungs = <<>>
    /\ ~strategy.exists

\* C27: a call of a client posts at most one request, whether the exchange
\* answers, reports an error or the transport fails, and a call that raises
\* on its arguments posts none.
C27_AtMostOnePost ==
    IsCall =>
        /\ Len(op.requests) <= 1
        /\ op.outcome.kind = "raise" => op.requests = <<>>

\* C27 witness: a request that timed out was posted once and not again
C27_Witness ==
    /\ op.name = "get_order_book"
    /\ op.transport.kind = "timeout"
    /\ Len(op.requests) = 1
    /\ op.outcome.isNone

\* C28: after a create_rungs that returns, the ladder has rung_count rungs
\* and none of them holds an order, whatever orders the rungs held before.
C28_RegeneratedLadderIsFresh ==
    op.name = "create_rungs" /\ op.outcome.kind = "return" =>
        /\ Len(strategy.rungs) = strategy.rung_count
        /\ Attached(strategy.rungs) = {}

\* C28 witness: a ladder of five rungs, one holding an order, was regenerated
C28_Witness ==
    /\ op.name = "create_rungs"
    /\ op.outcome.kind = "return"
    /\ Attached(op.before.rungs) # {}
    /\ Len(op.before.rungs) = 5
    /\ Attached(strategy.rungs) = {}

\* C29: a create_rungs that raises in _validate_inputs leaves the strategy,
\* its rungs and their orders as they were.
C29_FailedRegenerationKeepsLadder ==
    op.name = "create_rungs" /\ op.outcome.kind = "raise" =>
        /\ strategy.rungs = op.before.rungs
        /\ strategy = op.before

\* C29 witness: regeneration failed on a ladder of five rungs, one with an
\* order, and the ladder is as before
C29_Witness ==
    /\ op.name = "create_rungs"
    /\ op.outcome.kind = "raise"
    /\ Len(op.before.rungs) = 5
    /\ Attached(op.before.rungs) # {}
    /\ strategy.rungs = op.before.rungs

\* C30: when the exchange accepts an AddOrder request (no error, a result
\* with a txid), add_order returns an Order with the first txid and status
\* open, for a market order without price as for any other.
C30_AcceptedOrderReturned ==
    op.name = "add_order" /\ op.requests # <<>>
        /\ op.transport = Answer(AddOrderResult)
    => /\ ~op.outcome.isNone
       /\ op.outcome.value.txid = "OU22CG-KLAF2-FWUDD7"
       /\ op.outcome.value.status = "open"

\* What the code does: an Order is returned only for a result that itself
\* holds the key "result" and a call that gave a price; it then has the
\* first txid and status open.
C30_OrderOnlyFromNestedResultWithPrice ==
    op.name = "add_order" /\ op.outcome.kind = "return" /\ ~op.outcome.isNone
    => /\ op.transport = WrappedAnswer(AddOrderResult)
       /\ op.a.price.some
       /\ op.outcome.value.txid = "OU22CG-KLAF2-FWUDD7"
       /\ op.outcome.value.status = "open"

====
